---- MODULE Spec2Model ----
(***************************************************************************)
(* Streaming transcription gateway of wwb.ai (services/asr_service.go,     *)
(* handlers/audio_handler.go).                                             *)
(*                                                                         *)
(* Bytes are naturals in 0..255, byte slices and Go strings are sequences  *)
(* of bytes, a nil error is the empty sequence, an error is the sequence   *)
(* of its parts (one part, or two for the joined fallback error).          *)
(*                                                                         *)
(* The module holds several specifications over one set of variables:      *)
(*   Spec        asrService.recognize (orchestrator, streaming + REST)     *)
(*   SpecFair    Spec, with the call and the clock taking their steps      *)
(*   SpecWriter  qiniuASRWebsocketWriter (sequence counter, frames)        *)
(*   SpecCodec   sendFrame / parseASRWSBinaryMessage as pure functions     *)
(*   SpecBridge  AudioHandler.HandleASRStream (client-facing bridge)       *)
(*   SpecPcm     extractPCMBuffer as a pure function                       *)
(*   SpecWS      NLPHandler.HandleASRWebsocket (the older bridge)          *)
(*   SpecWSFair  SpecWS, with the handler and its readers taking steps     *)
(*   SpecWait    the adaptive read deadline of recognizeWebsocket          *)
(*   SpecAuth    auth.Service (Register, Login)                            *)
(*   SpecRole    api.Handler.handleRoleSelect and fetchRole                *)
(*   SpecMutex   sendJSON under writeMu, a step at a time                  *)
(*   SpecSeq     sendFrame a step at a time, per goroutine                 *)
(*   SpecStream  asrService.StreamRecognize and its reader goroutine       *)
(*   SpecRoleCrud  createRole, updateRole, deleteRole and the lookup       *)
(*   SpecReg     Register and Login calls running concurrently             *)
(* A specification leaves the variables of the others at their idle value. *)
(***************************************************************************)
EXTENDS Integers, Sequences, FiniteSets, TLC

VARIABLES
    \* ---- asrService.recognize / recognizeWebsocket
    pc,          \* position of the Recognize call
    input,       \* [token, url, format, data] of the call
    ctxDone,     \* ctx.Err() != nil
    expired,     \* time.Since(start) >= maxWait
    dials,       \* number of upstream websocket dials made
    restCalls,   \* sequence of the audio maps handed to recognizeREST
    offset,      \* `start` of the chunk loop
    finalText, reqID, durationMS,   \* accumulators of the drain loop
    lastRead,    \* what the last ReadMessage of the drain loop returned
    lastDur,     \* history: the duration the latest envelope reported
    skipped,     \* history: an undecodable message was skipped
    wsOut,       \* (result, err) of recognizeWebsocket once it returned
    restOut,     \* (result, err) of recognizeREST once it returned
    result,      \* (result, err) of recognize once it returned
    \* ---- qiniuASRWebsocketWriter
    seq,         \* w.seq (uint32)
    frames,      \* frames written to the upstream connection, in order
    sentBefore,  \* frames written on this session before the log starts
    connBroken,  \* the connection's sticky write error is set
    lastCall,    \* the last call made on the writer: <<name, len(chunk)>>
    \* ---- codec round trip
    cpc, cType, cSeq, cCompress, cPayload, cFrame, cDecoded,
    \* ---- HandleASRStream
    hpc,         \* position of the handler (client read loop)
    rpc,         \* position of the relay goroutine
    results,     \* the buffered channel `results` (capacity 1)
    hctxDone,    \* the handler's ctx is canceled
    clientOut,   \* messages written to the client connection, in order
    upOpen,      \* the upstream session's connection is open
    clientOK,    \* the client connection is open and takes writes
    stopSent,    \* stopOnce has fired
    lastClient,  \* what the handler's last read of the client returned
    \* ---- extractPCMBuffer
    ppc, pFormat, pData, pOut,
    \* ---- HandleASRWebsocket
    wpc,         \* position of the handler: [at, then]
    wStream,     \* `stream`: 0 is nil, n the n-th session opened
    wSess,       \* the sessions opened, each with its reader goroutine
    wCur,        \* `current` of closeUpstream in the handler and the watcher
    wWatch,      \* position of the goroutine waiting on ctx.Done()
    wCtx,        \* ctx is canceled
    wDone,       \* how many times upstreamDone was closed
    wOut,        \* messages written to the client connection, in order
    wClientOK,   \* the client connection is open and takes writes
    \* ---- the adaptive read deadline of recognizeWebsocket
    dpc, dIn, dOut,
    \* ---- auth.Service
    usersByName, \* s.usersByName: lower-cased username -> user (by ID)
    usersByEmail,\* s.usersByEmail: normalized email -> user (by ID)
    users,       \* the models.User values the maps point to, by ID
    authLast,    \* the last call on the service with what it returned
    \* ---- api.Handler, POST /api/role/select
    postgres,    \* h.postgres: [nil, ids of the rows of `roles`]
    mongo,       \* h.mongo: [nil, _ids of the role documents]
    roleLast,    \* the last request with the response written
    \* ---- sendJSON of the bridge handlers
    writeMu,     \* holder of writeMu, or "free"
    spc,         \* position of each goroutine in sendJSON
    nWritten,    \* number of messages written to the client connection
    \* ---- sendFrame as the goroutines of a bridge handler run it
    qpc,         \* position of each goroutine of the handler
    \* ---- history of the Recognize call
    cancelAt,    \* where the call was when its ctx was canceled
    \* ---- ASRService.StreamRecognize
    mpc,         \* position of StreamRecognize (the select loop)
    gpc,         \* position of its reader goroutine
    errCh,       \* the buffered channel errCh (capacity 1)
    sCtx,        \* ctx is canceled
    sConn,       \* the upstream connection is open
    sFed,        \* chunks received from the audio channel
    sResults,    \* the results handed to onResult, in order
    sRet,        \* what StreamRecognize returned
    \* ---- auth.Service, its calls a step at a time
    rgo,         \* per goroutine: its call, where it is, what it returned
    authMu       \* s.mu: the goroutine writing (0: none), those reading

orchVars   == <<pc, input, ctxDone, expired, dials, restCalls, offset,
                finalText, reqID, durationMS, lastRead, lastDur, skipped,
                wsOut, restOut, result>>
writerVars == <<seq, frames, sentBefore, connBroken, lastCall>>
codecVars  == <<cpc, cType, cSeq, cCompress, cPayload, cFrame, cDecoded>>
bridgeVars == <<hpc, rpc, results, hctxDone, clientOut, upOpen, clientOK,
                stopSent, lastClient>>
pcmVars    == <<ppc, pFormat, pData, pOut>>
wsVars     == <<wpc, wStream, wSess, wCur, wWatch, wCtx, wDone, wOut,
                wClientOK>>
waitVars   == <<dpc, dIn, dOut>>
authVars   == <<usersByName, usersByEmail, users, authLast>>
roleVars   == <<postgres, mongo, roleLast>>
muVars     == <<writeMu, spc, nWritten>>
seqVars    == <<qpc>>
histVars   == <<cancelAt>>
srVars     == <<mpc, gpc, errCh, sCtx, sConn, sFed, sResults, sRet>>
regVars    == <<rgo, authMu>>
moreVars   == <<histVars, srVars, regVars>>
extVars    == <<waitVars, authVars, roleVars, muVars, seqVars, moreVars>>
vars       == <<orchVars, writerVars, codecVars, bridgeVars, pcmVars, wsVars,
                extVars>>

-----------------------------------------------------------------------------
(* Bytes, strings, integers                                                *)

Byte == 0..255

\* A uint32 is kept as its two 16-bit halves <<high, low>>, so that the
\* counter wraps where the code's does (qiniuASRWebsocketWriter.seq).
U32Of(n) == << (n \div 65536) % 65536, n % 65536 >>

\* x + n in uint32 arithmetic, n a small natural
U32Add(x, n) ==
    LET lo == x[2] + n
    IN  << (x[1] + (lo \div 65536)) % 65536, lo % 65536 >>

\* binary.BigEndian.PutUint32
PutUint32(x) == << x[1] \div 256, x[1] % 256, x[2] \div 256, x[2] % 256 >>

\* binary.BigEndian.Uint32 of the first four bytes, as a uint32
Uint32(b) == << b[1] * 256 + b[2], b[3] * 256 + b[4] >>

\* int(uint32) where the code compares it with a slice length: a value of
\* 2^31 or more exceeds every length and is kept as the largest length
IntOf(x) ==
    IF x[1] >= 32768 THEN 2147483647 ELSE x[1] * 65536 + x[2]

\* s[from:] of a Go slice (from is 0-based)
Drop(s, from) == SubSeq(s, from + 1, Len(s))

\* unicode.IsSpace on the bytes the model uses
IsSpace(b) == b \in {9, 10, 11, 12, 13, 32}

RECURSIVE TrimLeft(_)
TrimLeft(s) ==
    IF s = <<>> THEN <<>>
    ELSE IF IsSpace(Head(s)) THEN TrimLeft(Tail(s)) ELSE s

RECURSIVE TrimRight(_)
TrimRight(s) ==
    IF s = <<>> THEN <<>>
    ELSE IF IsSpace(s[Len(s)]) THEN TrimRight(SubSeq(s, 1, Len(s) - 1)) ELSE s

\* strings.TrimSpace
TrimSpace(s) == TrimRight(TrimLeft(s))

Min(a, b) == IF a <= b THEN a ELSE b

-----------------------------------------------------------------------------
(* compress/gzip and encoding/json, as far as the gateway depends on them  *)

\* A gzip member is modelled as its two magic bytes, the stored data and a
\* one-byte length trailer (standing for CRC32/ISIZE).
GzipMagic == <<31, 139>>

\* gzipCompress: empty input yields empty output, not a gzip member
gzipCompress(data) ==
    IF Len(data) = 0 THEN <<>>
    ELSE GzipMagic \o data \o << Len(data) % 256 >>

\* gzipDecompress: gzip.NewReader fails without the magic, io.Copy fails on a
\* bad trailer
gzipDecompress(data) ==
    IF /\ Len(data) >= 3
       /\ SubSeq(data, 1, 2) = GzipMagic
       /\ data[Len(data)] = (Len(data) - 3) % 256
    THEN [ok |-> TRUE, data |-> SubSeq(data, 3, Len(data) - 1)]
    ELSE [ok |-> FALSE, data |-> <<>>]

\* What the gateway reads out of a decoded JSON object
\* (map[string]interface{}): error.message, reqid, data.result.text,
\* data.result.additions.duration (-1: absent or not a number),
\* data.audio_info.duration (-1: absent), text, is_final.
EmptyEnv ==
    [errMsg |-> <<>>, reqid |-> <<>>, dtext |-> <<>>, adur |-> -1,
     idur |-> -1, text |-> <<>>, fin |-> FALSE, other |-> FALSE]

\* The JSON objects of the model. The document number k is written as the
\* three bytes '{' k '}'; "{}" is the empty object.
JsonDocs ==
    << [EmptyEnv EXCEPT !.reqid = <<49>>, !.dtext = <<97>>, !.idur = 1],
       [EmptyEnv EXCEPT !.reqid = <<50>>, !.dtext = <<98>>, !.idur = 2,
                        !.fin = TRUE],
       [EmptyEnv EXCEPT !.dtext = <<32>>, !.fin = TRUE],
       [EmptyEnv EXCEPT !.errMsg = <<101>>],
       [EmptyEnv EXCEPT !.fin = TRUE],
       [EmptyEnv EXCEPT !.other = TRUE],
       [EmptyEnv EXCEPT !.adur = 3, !.text = <<32, 99>>] >>

JsonBytes(k) == <<123, k, 125>>

\* json.Unmarshal(payload, &envelope) into a map: fails unless the payload
\* is a JSON object
jsonUnmarshal(payload) ==
    IF payload = <<123, 125>>
    THEN [ok |-> TRUE, env |-> EmptyEnv]
    ELSE IF /\ Len(payload) = 3
            /\ payload[1] = 123
            /\ payload[3] = 125
            /\ payload[2] \in DOMAIN JsonDocs
    THEN [ok |-> TRUE, env |-> JsonDocs[payload[2]]]
    ELSE [ok |-> FALSE, env |-> EmptyEnv]

-----------------------------------------------------------------------------
(* Binary frame codec                                                      *)

\* sendFrame, the bytes of the frame: header, sequence, length, payload
EncodeFrame(messageType, sequence, payload, compress) ==
    LET compressed      == IF compress THEN gzipCompress(payload) ELSE payload
        compressionFlag == IF compress THEN 1 ELSE 0
        header == << 16 + 1, ((messageType * 16) % 256) + 1,
                     16 + compressionFlag, 0 >>
    IN  header \o PutUint32(sequence) \o PutUint32(U32Of(Len(compressed)))
        \o compressed

\* parseASRWSBinaryMessage: (envelope, payload, error); err = "" is nil
ParseFail(why) == [err |-> why, env |-> EmptyEnv, buf |-> <<>>]

\* as parseASRWSBinaryMessage, but the length prefix is stripped from
\* frames of every type
parseASRWSBinaryMessage_AnyType(data) ==
    IF Len(data) < 4 THEN ParseFail("binary message too short")
    ELSE
    LET hs0        == data[1] % 16
        headerSize == IF hs0 <= 0 THEN 1 ELSE hs0
        baseOffset == headerSize * 4
    IN
    IF Len(data) < baseOffset THEN ParseFail("invalid header size")
    ELSE
    LET flags         == data[2] % 16
        messageType   == data[2] \div 16
        serialization == data[3] \div 16
        compression   == data[3] % 16
        payload0      == Drop(data, baseOffset)
        hasSeq        == flags % 2 = 1
    IN
    IF hasSeq /\ Len(payload0) < 4 THEN ParseFail("payload missing sequence")
    ELSE
    LET payload1 == IF hasSeq THEN Drop(payload0, 4) ELSE payload0
        sized    == Len(payload1) >= 4
        size     == IF sized THEN IntOf(Uint32(payload1)) ELSE 0
    IN
    IF sized /\ size > Len(payload1) - 4 THEN ParseFail("payload size mismatch")
    ELSE
    LET payload2 == IF sized THEN SubSeq(payload1, 5, 4 + size) ELSE payload1
        gz       == gzipDecompress(payload2)
    IN
    IF compression = 1 /\ ~gz.ok THEN ParseFail("gzip")
    ELSE
    LET payload == IF compression = 1 THEN gz.data ELSE payload2
        js      == jsonUnmarshal(payload)
    IN
    IF serialization = 1
    THEN IF js.ok THEN [err |-> "", env |-> js.env, buf |-> payload]
         ELSE ParseFail("json")
    ELSE [err |-> "", env |-> [EmptyEnv EXCEPT !.text = payload], buf |-> payload]

parseASRWSBinaryMessage(data) ==
    IF Len(data) < 4 THEN ParseFail("binary message too short")
    ELSE
    LET hs0        == data[1] % 16
        headerSize == IF hs0 <= 0 THEN 1 ELSE hs0
        baseOffset == headerSize * 4
    IN
    IF Len(data) < baseOffset THEN ParseFail("invalid header size")
    ELSE
    LET flags         == data[2] % 16
        messageType   == data[2] \div 16
        serialization == data[3] \div 16
        compression   == data[3] % 16
        payload0      == Drop(data, baseOffset)
        hasSeq        == flags % 2 = 1
    IN
    IF hasSeq /\ Len(payload0) < 4 THEN ParseFail("payload missing sequence")
    ELSE
    LET payload1 == IF hasSeq THEN Drop(payload0, 4) ELSE payload0
        sized    == messageType = 9 /\ Len(payload1) >= 4
        size     == IF sized THEN IntOf(Uint32(payload1)) ELSE 0
    IN
    IF sized /\ size > Len(payload1) - 4 THEN ParseFail("payload size mismatch")
    ELSE
    LET payload2 == IF sized THEN SubSeq(payload1, 5, 4 + size) ELSE payload1
        gz       == gzipDecompress(payload2)
    IN
    IF compression = 1 /\ ~gz.ok THEN ParseFail("gzip")
    ELSE
    LET payload == IF compression = 1 THEN gz.data ELSE payload2
        js      == jsonUnmarshal(payload)
    IN
    IF serialization = 1
    THEN IF js.ok THEN [err |-> "", env |-> js.env, buf |-> payload]
         ELSE ParseFail("json")
    ELSE [err |-> "", env |-> [EmptyEnv EXCEPT !.text = payload], buf |-> payload]

-----------------------------------------------------------------------------
(* qiniuASRWebsocketWriter                                                 *)

\* Bound of the model: frames logged per session
MaxFrames == 4

\* json.Marshal of the config request: the audio parameters between braces
\* (uid and model name left out)
ConfigPayload(sampleRate, channels, bits) ==
    <<123, sampleRate % 256, bits % 256, channels % 256, 125>>

\* newQiniuASRWebsocketWriter: the first sequence number
FirstSeq == U32Of(1)

\* sendFrame. `wrote` is the outcome of conn.WriteMessage; a failed write
\* leaves the connection's write error set, so later writes fail too.
\* The counter is advanced before the write and whatever its outcome.
sendFrame_SkipStop(messageType, payload, compress, wrote) ==
    /\ seq' = IF messageType = 4 THEN seq ELSE U32Add(seq, 1)
    /\ IF wrote /\ ~connBroken
       THEN /\ frames' = Append(frames,
                            EncodeFrame(messageType, seq, payload, compress))
            /\ connBroken' = connBroken
       ELSE /\ frames' = frames
            /\ connBroken' = TRUE
    /\ UNCHANGED sentBefore

sendFrame(messageType, payload, compress, wrote) ==
    /\ seq' = U32Add(seq, 1)
    /\ IF wrote /\ ~connBroken
       THEN /\ frames' = Append(frames,
                            EncodeFrame(messageType, seq, payload, compress))
            /\ connBroken' = connBroken
       ELSE /\ frames' = frames
            /\ connBroken' = TRUE
    /\ UNCHANGED sentBefore

\* the error sendFrame returns is nil
SendOK(wrote) == wrote /\ ~connBroken

\* SendConfig
SendConfig(sampleRate, channels, bits, wrote) ==
    sendFrame(1, ConfigPayload(sampleRate, channels, bits), TRUE, wrote)

\* SendAudioChunk: an empty chunk returns nil at once
SendAudioChunk(chunk, wrote) ==
    IF Len(chunk) = 0
    THEN UNCHANGED <<seq, frames, sentBefore, connBroken>>
    ELSE sendFrame(2, chunk, TRUE, wrote)

\* SendStop
SendStop(wrote) == sendFrame(4, <<>>, FALSE, wrote)

\* the sequence number a frame carries (bytes 4..7 of the frame)
FrameSeq(frame) == Uint32(SubSeq(frame, 5, 8))

\* the message type a frame carries (high nibble of byte 1)
FrameType(frame) == frame[2] \div 16

WriterIdle ==
    /\ seq = FirstSeq
    /\ frames = <<>>
    /\ sentBefore = U32Of(0)
    /\ connBroken = FALSE
    /\ lastCall = <<"new", 0>>

CodecIdle ==
    /\ cpc = "idle"
    /\ cType = 0
    /\ cSeq = U32Of(0)
    /\ cCompress = FALSE
    /\ cPayload = <<>>
    /\ cFrame = <<>>
    /\ cDecoded = ParseFail("")

-----------------------------------------------------------------------------
(* PCM extraction                                                          *)

\* asrService.sampleRate: NewASRService replaces a non-positive
\* cfg.ASRSampleRate by 16000
DefaultSampleRate == 16000

\* strings.ToLower on ASCII
ToLower(s) == [i \in 1..Len(s) |-> IF s[i] \in 65..90 THEN s[i] + 32 ELSE s[i]]

\* strings.HasSuffix
HasSuffix(s, suf) ==
    Len(s) >= Len(suf) /\ SubSeq(s, Len(s) - Len(suf) + 1, Len(s)) = suf

\* strings.Contains
Contains(s, sub) ==
    \E i \in 0..(Len(s) - Len(sub)) : SubSeq(s, i + 1, i + Len(sub)) = sub

StrWav   == <<119, 97, 118>>
StrWave  == <<119, 97, 118, 101>>
StrSWav  == <<47, 119, 97, 118>>
StrSWave == <<47, 119, 97, 118, 101>>
StrPcm   == <<112, 99, 109>>
StrMp3   == <<109, 112, 51>>

\* binary.LittleEndian.Uint16(data[at:at+2]), binary.LittleEndian.Uint32
LE16(data, at) == data[at + 1] + 256 * data[at + 2]
LE32(data, at) ==
    data[at + 1] + 256 * data[at + 2] + 65536 * data[at + 3]
    + 16777216 * data[at + 4]

PcmFail(why) ==
    [err |-> why, pcm |-> <<>>, sampleRate |-> 0, channels |-> 0, bits |-> 0]

\* as extractPCMBuffer, but a payload of 44 bytes is taken
extractPCMBuffer_Min44(format0, data, fallbackRate) ==
    LET format == ToLower(TrimSpace(format0)) IN
    IF \/ format = <<>> \/ format = StrWav \/ format = StrWave
       \/ HasSuffix(format, StrSWav) \/ HasSuffix(format, StrSWave)
    THEN IF Len(data) < 44 THEN PcmFail("wav payload too short")
         ELSE LET ch == LE16(data, 22)
                  sr == LE32(data, 24)
                  bi == LE16(data, 34)
              IN [err |-> "", pcm |-> Drop(data, 44),
                  sampleRate |-> IF sr <= 0 THEN fallbackRate ELSE sr,
                  channels |-> IF ch <= 0 THEN 1 ELSE ch,
                  bits |-> IF bi <= 0 THEN 16 ELSE bi]
    ELSE IF format = StrPcm \/ Contains(format, StrPcm)
    THEN [err |-> "", pcm |-> data, sampleRate |-> fallbackRate,
          channels |-> 1, bits |-> 16]
    ELSE PcmFail("unsupported inline audio format")

\* extractPCMBuffer
extractPCMBuffer(format0, data, fallbackRate) ==
    LET format == ToLower(TrimSpace(format0)) IN
    IF \/ format = <<>> \/ format = StrWav \/ format = StrWave
       \/ HasSuffix(format, StrSWav) \/ HasSuffix(format, StrSWave)
    THEN IF Len(data) <= 44 THEN PcmFail("wav payload too short")
         ELSE LET ch == LE16(data, 22)
                  sr == LE32(data, 24)
                  bi == LE16(data, 34)
              IN [err |-> "", pcm |-> Drop(data, 44),
                  sampleRate |-> IF sr <= 0 THEN fallbackRate ELSE sr,
                  channels |-> IF ch <= 0 THEN 1 ELSE ch,
                  bits |-> IF bi <= 0 THEN 16 ELSE bi]
    ELSE IF format = StrPcm \/ Contains(format, StrPcm)
    THEN [err |-> "", pcm |-> data, sampleRate |-> fallbackRate,
          channels |-> 1, bits |-> 16]
    ELSE PcmFail("unsupported inline audio format")

\* A 44-byte WAV header with the three fields the extractor reads
Zeros(n) == [i \in 1..n |-> 0]

WavHeader(ch, sr, bi) ==
    Zeros(22) \o <<ch % 256, ch \div 256>>
    \o <<sr % 256, (sr \div 256) % 256, (sr \div 65536) % 256, sr \div 16777216>>
    \o Zeros(6) \o <<bi % 256, bi \div 256>> \o Zeros(8)

-----------------------------------------------------------------------------
(* Upstream messages                                                       *)

\* a websocket message as conn.ReadMessage returns it
BinaryMsg(payload) == [mt |-> "binary", payload |-> payload]
TextMsg(payload)   == [mt |-> "text", payload |-> payload]
NoMsg              == [mt |-> "none", payload |-> <<>>]

\* a server response (type 9) carrying JSON document k, gzip-compressed
ServerFrame(k) == EncodeFrame(9, U32Of(k), JsonBytes(k), TRUE)

\* binary messages that parseASRWSBinaryMessage rejects, one per error
MalformedFrames ==
    { <<1, 2, 3>>,
      <<18, 145, 17, 0>>,
      <<17, 145, 17, 0, 0, 0>>,
      <<17, 145, 17, 0>> \o PutUint32(U32Of(1)) \o PutUint32(U32Of(9)) \o <<1>>,
      <<17, 145, 17, 0>> \o PutUint32(U32Of(1)) \o PutUint32(U32Of(2)) \o <<1, 2>>,
      EncodeFrame(9, U32Of(1), <<1, 2>>, TRUE) }

\* a server response with raw (non-JSON) serialization: the text "d"
RawTextFrame ==
    <<17, 145, 0, 0>> \o PutUint32(U32Of(1)) \o PutUint32(U32Of(1)) \o <<100>>

UpstreamMsgs ==
    { BinaryMsg(ServerFrame(k)) : k \in DOMAIN JsonDocs }
    \cup { BinaryMsg(f) : f \in MalformedFrames }
    \cup { BinaryMsg(RawTextFrame), TextMsg(JsonBytes(1)), TextMsg(<<1>>) }

\* The decoding step shared by the drain loop and NextEvent: binary
\* messages go through parseASRWSBinaryMessage, text messages through
\* json.Unmarshal, anything else is skipped.
DecodeMessage(m) ==
    IF m.mt = "binary"
    THEN LET p == parseASRWSBinaryMessage(m.payload)
         IN  [ok |-> p.err = "", env |-> p.env, buf |-> p.buf]
    ELSE IF m.mt = "text"
    THEN LET j == jsonUnmarshal(m.payload)
         IN  [ok |-> j.ok, env |-> j.env,
              buf |-> IF j.ok THEN m.payload ELSE <<>>]
    ELSE [ok |-> FALSE, env |-> EmptyEnv, buf |-> <<>>]

\* ASRStreamEvent; Err = "" is nil
EmptyEvent ==
    [reqid |-> <<>>, text |-> <<>>, dur |-> 0, fin |-> FALSE, raw |-> <<>>,
     err |-> ""]

\* ASRStreamSession.NextEvent on a message that was read (lines 578-668)
NextEvent(m) ==
    LET d == DecodeMessage(m) IN
    IF ~d.ok THEN EmptyEvent
    ELSE
    LET env     == d.env
        t1      == IF env.dtext # <<>> THEN env.dtext ELSE <<>>
        d1      == IF env.adur # -1 THEN env.adur ELSE 0
        d2      == IF env.idur # -1 /\ d1 = 0 THEN env.idur ELSE d1
        t2      == IF env.text # <<>> THEN env.text ELSE t1
        trimmed == TrimSpace(d.buf)
        t3      == IF t2 = <<>> /\ trimmed # <<>> /\ trimmed # <<123, 125>>
                   THEN trimmed ELSE t2
    IN  [reqid |-> env.reqid, text |-> t3, dur |-> d2, fin |-> env.fin,
         raw |-> d.buf,
         err |-> IF TrimSpace(env.errMsg) # <<>> THEN "qiniu asr error" ELSE ""]

-----------------------------------------------------------------------------
(* asrService.recognize                                                    *)

NoResult == [nil |-> TRUE, text |-> <<>>, dur |-> 0, reqid |-> <<>>]
Pending  == [done |-> FALSE, res |-> NoResult, err |-> <<>>]
Returned(res, err) == [done |-> TRUE, res |-> res, err |-> err]
ASRResult(reqid, text, dur) ==
    [nil |-> FALSE, text |-> text, dur |-> dur, reqid |-> reqid]

\* the inputs of the model: token, URL, format, inline data
Tokens  == { <<32>>, <<116>> }
Urls    == { <<32>>, <<117>> }
Formats == { <<>>, StrPcm, StrMp3 }
Datas ==
    { <<>>,
      WavHeader(1, 10, 8),
      WavHeader(1, 10, 8) \o <<1, 2, 3>>,
      WavHeader(1, 20, 8) \o <<1, 2, 3>>,
      WavHeader(1, 5, 8) \o <<1, 2>>,
      <<5, 6>> }
Inputs == [token : Tokens, url : Urls, format : Formats, data : Datas]

\* what recognizeREST can answer
RestResults == { ASRResult(<<57>>, <<114>>, 7), ASRResult(<<>>, <<>>, 0) }
RestErrors  == { "call asr api", "qiniu asr error" }

\* recognize: the format handed on (line 441)
Format == IF TrimSpace(input.format) = <<>> THEN StrWav ELSE TrimSpace(input.format)

\* recognizeWebsocket: the PCM of the call
Pcm == extractPCMBuffer(Format, input.data, DefaultSampleRate)

BytesPerSample == IF Pcm.bits \div 8 <= 0 THEN 2 ELSE Pcm.bits \div 8

\* recognizeWebsocket: bytes per 100 ms frame
FrameSize ==
    LET fs == (Pcm.sampleRate \div 10) * BytesPerSample * Pcm.channels
    IN  IF fs <= 0 THEN 3200 ELSE fs

\* recognizeWebsocket returns (res, err); recognize returns the result at
\* once when err is nil and goes on to the REST fallback otherwise
WsReturn(res, err) ==
    /\ wsOut' = Returned(res, err)
    /\ IF err = <<>>
       THEN result' = Returned(res, <<>>) /\ pc' = "done"
       ELSE result' = result /\ pc' = "fallback"

OrchIdle ==
    /\ pc = "idle"
    /\ input = [token |-> <<>>, url |-> <<>>, format |-> <<>>, data |-> <<>>]
    /\ ctxDone = FALSE
    /\ expired = FALSE
    /\ dials = 0
    /\ restCalls = <<>>
    /\ offset = 0
    /\ finalText = <<>>
    /\ reqID = <<>>
    /\ durationMS = 0
    /\ lastRead = [kind |-> "none", msg |-> NoMsg]
    /\ lastDur = 0
    /\ skipped = FALSE
    /\ wsOut = Pending
    /\ restOut = Pending
    /\ result = Pending

\* as Recognize, but inline data takes precedence over the URL
Recognize_DataFirst ==
    /\ pc = "recognize"
    /\ IF TrimSpace(input.token) = <<>>
       THEN /\ result' = Returned(NoResult, <<"authorization token is required">>)
            /\ pc' = "done"
       ELSE IF TrimSpace(input.url) # <<>> /\ Len(input.data) = 0
       THEN /\ result' = result
            /\ pc' = "rest_url"
       ELSE IF Len(input.data) = 0
       THEN /\ result' = Returned(NoResult,
                            <<"audio payload must include url or inline data">>)
            /\ pc' = "done"
       ELSE /\ result' = result
            /\ pc' = "ws_extract"
    /\ UNCHANGED <<input, ctxDone, expired, dials, restCalls, offset, finalText,
                   reqID, durationMS, lastRead, lastDur, skipped, wsOut, restOut>>
    /\ UNCHANGED <<writerVars, codecVars, bridgeVars, pcmVars, wsVars, extVars>>

\* recognize up to the choice of the path (lines 436-454)
Recognize ==
    /\ pc = "recognize"
    /\ IF TrimSpace(input.token) = <<>>
       THEN /\ result' = Returned(NoResult, <<"authorization token is required">>)
            /\ pc' = "done"
       ELSE IF TrimSpace(input.url) # <<>>
       THEN /\ result' = result
            /\ pc' = "rest_url"
       ELSE IF Len(input.data) = 0
       THEN /\ result' = Returned(NoResult,
                            <<"audio payload must include url or inline data">>)
            /\ pc' = "done"
       ELSE /\ result' = result
            /\ pc' = "ws_extract"
    /\ UNCHANGED <<input, ctxDone, expired, dials, restCalls, offset, finalText,
                   reqID, durationMS, lastRead, lastDur, skipped, wsOut, restOut>>
    /\ UNCHANGED <<writerVars, codecVars, bridgeVars, pcmVars, wsVars, extVars>>

\* recognizeREST for a URL input; its result and error are returned as is
RecognizeRESTUrl ==
    /\ pc = "rest_url"
    /\ restCalls' = Append(restCalls,
                      [format |-> Format, url |-> TrimSpace(input.url),
                       inline |-> FALSE])
    /\ \/ \E r \in RestResults : ~ctxDone /\ restOut' = Returned(r, <<>>)
       \/ \E e \in RestErrors : restOut' = Returned(NoResult, <<e>>)
    /\ result' = restOut'
    /\ pc' = "done"
    /\ UNCHANGED <<input, ctxDone, expired, dials, offset, finalText, reqID,
                   durationMS, lastRead, lastDur, skipped, wsOut>>
    /\ UNCHANGED <<writerVars, codecVars, bridgeVars, pcmVars, wsVars, extVars>>

\* as WsExtract, but a validation error is returned to the caller at once
WsExtract_Surface ==
    /\ pc = "ws_extract"
    /\ IF Pcm.err # ""
       THEN /\ wsOut' = Returned(NoResult, <<Pcm.err>>)
            /\ result' = wsOut'
            /\ pc' = "done"
       ELSE IF Len(Pcm.pcm) = 0
       THEN WsReturn(NoResult, <<"pcm payload is empty">>)
       ELSE /\ pc' = "ws_dial"
            /\ UNCHANGED <<wsOut, result>>
    /\ UNCHANGED <<input, ctxDone, expired, dials, restCalls, offset, finalText,
                   reqID, durationMS, lastRead, lastDur, skipped, restOut>>
    /\ UNCHANGED <<writerVars, codecVars, bridgeVars, pcmVars, wsVars, extVars>>

\* recognizeWebsocket: PCM extraction (lines 726-737)
WsExtract ==
    /\ pc = "ws_extract"
    /\ IF Pcm.err # ""
       THEN WsReturn(NoResult, <<Pcm.err>>)
       ELSE IF Len(Pcm.pcm) = 0
       THEN WsReturn(NoResult, <<"pcm payload is empty">>)
       ELSE /\ pc' = "ws_dial"
            /\ UNCHANGED <<wsOut, result>>
    /\ UNCHANGED <<input, ctxDone, expired, dials, restCalls, offset, finalText,
                   reqID, durationMS, lastRead, lastDur, skipped, restOut>>
    /\ UNCHANGED <<writerVars, codecVars, bridgeVars, pcmVars, wsVars, extVars>>

\* as WsDial, but a failed dial is tried once more
WsDial_Retry ==
    /\ pc = "ws_dial"
    /\ dials' = dials + 1
    /\ \/ /\ ~ctxDone
          /\ pc' = "ws_config"
          /\ UNCHANGED <<wsOut, result>>
       \/ IF dials = 0
          THEN UNCHANGED <<pc, wsOut, result>>
          ELSE WsReturn(NoResult, <<"dial asr websocket">>)
    /\ UNCHANGED <<input, ctxDone, expired, restCalls, offset, finalText, reqID,
                   durationMS, lastRead, lastDur, skipped, restOut>>
    /\ UNCHANGED <<writerVars, codecVars, bridgeVars, pcmVars, wsVars, extVars>>

\* recognizeWebsocket: the dial (lines 739-756); a canceled ctx fails it
WsDial ==
    /\ pc = "ws_dial"
    /\ dials' = dials + 1
    /\ \/ /\ ~ctxDone
          /\ pc' = "ws_config"
          /\ UNCHANGED <<wsOut, result>>
       \/ WsReturn(NoResult, <<"dial asr websocket">>)
    /\ UNCHANGED <<input, ctxDone, expired, restCalls, offset, finalText, reqID,
                   durationMS, lastRead, lastDur, skipped, restOut>>
    /\ UNCHANGED <<writerVars, codecVars, bridgeVars, pcmVars, wsVars, extVars>>

\* recognizeWebsocket: the config frame (lines 768-771)
WsSendConfig ==
    /\ pc = "ws_config"
    /\ \E wrote \in BOOLEAN :
          /\ SendConfig(Pcm.sampleRate, Pcm.channels, Pcm.bits, wrote)
          /\ IF SendOK(wrote)
             THEN pc' = "ws_chunks" /\ UNCHANGED <<wsOut, result>>
             ELSE WsReturn(NoResult, <<"send asr config">>)
    /\ lastCall' = <<"config", 0>>
    /\ UNCHANGED <<input, ctxDone, expired, dials, restCalls, offset, finalText,
                   reqID, durationMS, lastRead, lastDur, skipped, restOut>>
    /\ UNCHANGED <<codecVars, bridgeVars, pcmVars, wsVars, extVars>>

\* recognizeWebsocket: one turn of the chunk loop (lines 805-814)
WsSendChunk ==
    /\ pc = "ws_chunks"
    /\ offset < Len(Pcm.pcm)
    /\ LET end   == Min(offset + FrameSize, Len(Pcm.pcm))
           chunk == SubSeq(Pcm.pcm, offset + 1, end)
       IN  /\ \E wrote \in BOOLEAN :
                 /\ SendAudioChunk(chunk, wrote)
                 /\ IF SendOK(wrote)
                    THEN /\ offset' = offset + FrameSize
                         /\ UNCHANGED <<pc, wsOut, result>>
                    ELSE /\ offset' = offset
                         /\ WsReturn(NoResult, <<"send audio chunk">>)
           /\ lastCall' = <<"audio", Len(chunk)>>
    /\ UNCHANGED <<input, ctxDone, expired, dials, restCalls, finalText, reqID,
                   durationMS, lastRead, lastDur, skipped, restOut>>
    /\ UNCHANGED <<codecVars, bridgeVars, pcmVars, wsVars, extVars>>

\* as WsSendStop, but the loop ends one slice early
WsSendStop_Early ==
    /\ pc = "ws_chunks"
    /\ offset + FrameSize >= Len(Pcm.pcm)
    /\ \E wrote \in BOOLEAN : SendStop(wrote)
    /\ lastCall' = <<"stop", 0>>
    /\ pc' = "loop_top"
    /\ UNCHANGED <<input, ctxDone, expired, dials, restCalls, offset, finalText,
                   reqID, durationMS, lastRead, lastDur, skipped, wsOut, restOut,
                   result>>
    /\ UNCHANGED <<codecVars, bridgeVars, pcmVars, wsVars, extVars>>

\* recognizeWebsocket: the stop frame, whose error is only logged, and the
\* start of the clock (lines 816-825)
WsSendStop ==
    /\ pc = "ws_chunks"
    /\ offset >= Len(Pcm.pcm)
    /\ \E wrote \in BOOLEAN : SendStop(wrote)
    /\ lastCall' = <<"stop", 0>>
    /\ pc' = "loop_top"
    /\ UNCHANGED <<input, ctxDone, expired, dials, restCalls, offset, finalText,
                   reqID, durationMS, lastRead, lastDur, skipped, wsOut, restOut,
                   result>>
    /\ UNCHANGED <<codecVars, bridgeVars, pcmVars, wsVars, extVars>>

\* The drain loop of recognizeWebsocket (lines 827-933). `expired` stands
\* for time.Since(start) >= maxWait: the loop reads the clock at its top
\* (remaining <= 0), at its bottom, and through the read deadline.

orchRest == <<input, dials, restCalls, offset, restOut>>

\* as LoopTop, but the remaining time is not looked at
LoopTop_NoDeadline ==
    /\ pc = "loop_top"
    /\ IF ctxDone
       THEN WsReturn(NoResult, <<"context canceled">>)
       ELSE pc' = "read" /\ UNCHANGED <<wsOut, result>>
    /\ UNCHANGED <<orchRest, ctxDone, expired, finalText, reqID, durationMS,
                   lastRead, lastDur, skipped>>
    /\ UNCHANGED <<writerVars, codecVars, bridgeVars, pcmVars, wsVars, extVars>>

\* top of the loop: ctx.Err(), then the remaining time (lines 828-835)
LoopTop ==
    /\ pc = "loop_top"
    /\ IF ctxDone
       THEN WsReturn(NoResult, <<"context canceled">>)
       ELSE IF expired
       THEN WsReturn(NoResult, <<"asr websocket timed out waiting for response">>)
       ELSE pc' = "read" /\ UNCHANGED <<wsOut, result>>
    /\ UNCHANGED <<orchRest, ctxDone, expired, finalText, reqID, durationMS,
                   lastRead, lastDur, skipped>>
    /\ UNCHANGED <<writerVars, codecVars, bridgeVars, pcmVars, wsVars, extVars>>

\* the accumulators after a decoded envelope (lines 888-914)
NextReqID(env) == IF env.reqid # <<>> THEN env.reqid ELSE reqID

NextText(env) ==
    LET t1 == IF env.dtext # <<>> THEN env.dtext ELSE finalText
    IN  IF env.text # <<>> THEN env.text ELSE t1

NextDuration(env) ==
    LET d1 == IF env.adur # -1 THEN env.adur ELSE durationMS
    IN  IF env.idur # -1 /\ d1 = 0 THEN env.idur ELSE d1

\* history: the duration the envelope reports, `was` if it reports none
ReportedDuration(env, was) ==
    IF env.adur # -1 THEN env.adur
    ELSE IF env.idur # -1 THEN env.idur
    ELSE was

\* the error envelope check (lines 882-886)
IsErrorEnv(env) == TrimSpace(env.errMsg) # <<>>

\* as ReadMsg, but an undecodable message ends the attempt with an error
ReadMsg_FatalParse(m) ==
    /\ pc = "read"
    /\ lastRead' = [kind |-> "msg", msg |-> m]
    /\ LET d == DecodeMessage(m) IN
       IF ~d.ok
       THEN \* logged and skipped: continue
            /\ WsReturn(NoResult, <<"read asr message">>)
            /\ skipped' = TRUE
            /\ UNCHANGED <<finalText, reqID, durationMS, lastDur>>
       ELSE IF IsErrorEnv(d.env)
       THEN /\ WsReturn(NoResult, <<"qiniu asr error">>)
            /\ UNCHANGED <<finalText, reqID, durationMS, lastDur, skipped>>
       ELSE /\ reqID' = NextReqID(d.env)
            /\ lastDur' = ReportedDuration(d.env, lastDur)
            /\ skipped' = skipped
            /\ finalText' = NextText(d.env)
            /\ durationMS' = NextDuration(d.env)
            /\ pc' = IF d.env.fin /\ finalText' # <<>> THEN "ws_finish"
                     ELSE IF expired THEN "ws_finish"
                     ELSE "loop_top"
            /\ UNCHANGED <<wsOut, result>>
    /\ UNCHANGED <<orchRest, ctxDone, expired>>
    /\ UNCHANGED <<writerVars, codecVars, bridgeVars, pcmVars, wsVars, extVars>>

\* ReadMessage returns a message (lines 837, 858-933)
ReadMsg(m) ==
    /\ pc = "read"
    /\ lastRead' = [kind |-> "msg", msg |-> m]
    /\ LET d == DecodeMessage(m) IN
       IF ~d.ok
       THEN \* logged and skipped: continue
            /\ pc' = "loop_top"
            /\ skipped' = TRUE
            /\ UNCHANGED <<finalText, reqID, durationMS, lastDur, wsOut, result>>
       ELSE IF IsErrorEnv(d.env)
       THEN /\ WsReturn(NoResult, <<"qiniu asr error">>)
            /\ UNCHANGED <<finalText, reqID, durationMS, lastDur, skipped>>
       ELSE /\ reqID' = NextReqID(d.env)
            /\ lastDur' = ReportedDuration(d.env, lastDur)
            /\ skipped' = skipped
            /\ finalText' = NextText(d.env)
            /\ durationMS' = NextDuration(d.env)
            /\ pc' = IF d.env.fin /\ finalText' # <<>> THEN "ws_finish"
                     ELSE IF expired THEN "ws_finish"
                     ELSE "loop_top"
            /\ UNCHANGED <<wsOut, result>>
    /\ UNCHANGED <<orchRest, ctxDone, expired>>
    /\ UNCHANGED <<writerVars, codecVars, bridgeVars, pcmVars, wsVars, extVars>>

\* ReadMessage returns a normal close or io.EOF (lines 839-841)
ReadClose ==
    /\ pc = "read"
    /\ lastRead' = [kind |-> "close", msg |-> NoMsg]
    /\ pc' = "ws_finish"
    /\ UNCHANGED <<orchRest, ctxDone, expired, finalText, reqID, durationMS,
                   lastDur, skipped, wsOut, result>>
    /\ UNCHANGED <<writerVars, codecVars, bridgeVars, pcmVars, wsVars, extVars>>

\* the read deadline passes (lines 843-850)
ReadTimeout ==
    /\ pc = "read"
    /\ expired' = TRUE
    /\ lastRead' = [kind |-> "timeout", msg |-> NoMsg]
    /\ IF finalText # <<>>
       THEN pc' = "ws_finish" /\ UNCHANGED <<wsOut, result>>
       ELSE WsReturn(NoResult, <<"asr websocket timed out waiting for response after">>)
    /\ UNCHANGED <<orchRest, ctxDone, finalText, reqID, durationMS, lastDur,
                   skipped>>
    /\ UNCHANGED <<writerVars, codecVars, bridgeVars, pcmVars, wsVars, extVars>>

\* ReadMessage returns any other error (lines 852-855)
ReadError ==
    /\ pc = "read"
    /\ lastRead' = [kind |-> "error", msg |-> NoMsg]
    /\ IF finalText # <<>>
       THEN pc' = "ws_finish" /\ UNCHANGED <<wsOut, result>>
       ELSE WsReturn(NoResult, <<"read asr message">>)
    /\ UNCHANGED <<orchRest, ctxDone, expired, finalText, reqID, durationMS,
                   lastDur, skipped>>
    /\ UNCHANGED <<writerVars, codecVars, bridgeVars, pcmVars, wsVars, extVars>>

\* math.Round(samples / sr * 1000) with samples = len(pcm) / 2
DerivedDuration == (Len(Pcm.pcm) * 1000 + Pcm.sampleRate) \div (2 * Pcm.sampleRate)

\* as WsFinish, but the trimmed text is returned even when it is empty
WsFinish_NoEmptyCheck ==
    /\ pc = "ws_finish"
    /\ durationMS' = IF durationMS = 0 THEN DerivedDuration ELSE durationMS
    /\ WsReturn(ASRResult(reqID, TrimSpace(finalText), durationMS'), <<>>)
    /\ UNCHANGED <<orchRest, ctxDone, expired, finalText, reqID, lastRead,
                   lastDur, skipped>>
    /\ UNCHANGED <<writerVars, codecVars, bridgeVars, pcmVars, wsVars, extVars>>

\* after the loop (lines 935-973)
WsFinish ==
    /\ pc = "ws_finish"
    /\ durationMS' = IF durationMS = 0 THEN DerivedDuration ELSE durationMS
    /\ LET cleanText == TrimSpace(finalText) IN
       IF cleanText = <<>>
       THEN WsReturn(NoResult, <<"asr websocket produced no transcription">>)
       ELSE WsReturn(ASRResult(reqID, cleanText, durationMS'), <<>>)
    /\ UNCHANGED <<orchRest, ctxDone, expired, finalText, reqID, lastRead,
                   lastDur, skipped>>
    /\ UNCHANGED <<writerVars, codecVars, bridgeVars, pcmVars, wsVars, extVars>>

\* as RestFallback, but the joined error drops the streaming error
RestFallback_DropWs ==
    /\ pc = "fallback"
    /\ restCalls' = Append(restCalls,
                      [format |-> Format, url |-> <<>>, inline |-> TRUE])
    /\ \/ \E r \in RestResults : ~ctxDone /\ restOut' = Returned(r, <<>>)
       \/ \E e \in RestErrors : restOut' = Returned(NoResult, <<e>>)
    /\ result' = IF restOut'.err = <<>>
                 THEN restOut'
                 ELSE Returned(NoResult, restOut'.err)
    /\ pc' = "done"
    /\ UNCHANGED <<input, ctxDone, expired, dials, offset, finalText, reqID,
                   durationMS, lastRead, lastDur, skipped, wsOut>>
    /\ UNCHANGED <<writerVars, codecVars, bridgeVars, pcmVars, wsVars, extVars>>

\* as RestFallback, but the streaming error is returned although the REST call
\* succeeded
RestFallback_Surface ==
    /\ pc = "fallback"
    /\ restCalls' = Append(restCalls,
                      [format |-> Format, url |-> <<>>, inline |-> TRUE])
    /\ \/ \E r \in RestResults : ~ctxDone /\ restOut' = Returned(r, <<>>)
       \/ \E e \in RestErrors : restOut' = Returned(NoResult, <<e>>)
    /\ result' = IF restOut'.err = <<>>
                 THEN Returned(NoResult, wsOut.err)
                 ELSE Returned(NoResult, wsOut.err \o restOut'.err)
    /\ pc' = "done"
    /\ UNCHANGED <<input, ctxDone, expired, dials, offset, finalText, reqID,
                   durationMS, lastRead, lastDur, skipped, wsOut>>
    /\ UNCHANGED <<writerVars, codecVars, bridgeVars, pcmVars, wsVars, extVars>>

\* the REST fallback for inline data (lines 461-473)
RestFallback ==
    /\ pc = "fallback"
    /\ restCalls' = Append(restCalls,
                      [format |-> Format, url |-> <<>>, inline |-> TRUE])
    /\ \/ \E r \in RestResults : ~ctxDone /\ restOut' = Returned(r, <<>>)
       \/ \E e \in RestErrors : restOut' = Returned(NoResult, <<e>>)
    /\ result' = IF restOut'.err = <<>>
                 THEN restOut'
                 ELSE Returned(NoResult, wsOut.err \o restOut'.err)
    /\ pc' = "done"
    /\ UNCHANGED <<input, ctxDone, expired, dials, offset, finalText, reqID,
                   durationMS, lastRead, lastDur, skipped, wsOut>>
    /\ UNCHANGED <<writerVars, codecVars, bridgeVars, pcmVars, wsVars, extVars>>

\* the caller's context is canceled or its deadline passes
Cancel ==
    /\ pc \notin {"idle", "done"}
    /\ ~ctxDone
    /\ ctxDone' = TRUE
    /\ cancelAt' = pc
    /\ UNCHANGED <<pc, input, expired, dials, restCalls, offset, finalText,
                   reqID, durationMS, lastRead, lastDur, skipped, wsOut, restOut,
                   result>>
    /\ UNCHANGED <<writerVars, codecVars, bridgeVars, pcmVars, wsVars>>
    /\ UNCHANGED <<waitVars, authVars, roleVars, muVars, seqVars, srVars,
                   regVars>>

\* maxWait has passed since `start`
Tick ==
    /\ pc \in {"loop_top", "read"}
    /\ ~expired
    /\ expired' = TRUE
    /\ UNCHANGED <<pc, input, ctxDone, dials, restCalls, offset, finalText,
                   reqID, durationMS, lastRead, lastDur, skipped, wsOut, restOut,
                   result>>
    /\ UNCHANGED <<writerVars, codecVars, bridgeVars, pcmVars, wsVars, extVars>>

BridgeIdle ==
    /\ hpc = "idle"
    /\ rpc = "idle"
    /\ results = [buf |-> <<>>, closed |-> FALSE]
    /\ hctxDone = FALSE
    /\ clientOut = <<>>
    /\ upOpen = FALSE
    /\ clientOK = FALSE
    /\ stopSent = FALSE
    /\ lastClient = "none"

PcmIdle ==
    /\ ppc = "idle"
    /\ pFormat = <<>>
    /\ pData = <<>>
    /\ pOut = PcmFail("")

WsIdle ==
    /\ wpc = [at |-> "idle", then |-> "return"]
    /\ wStream = 0
    /\ wSess = <<>>
    /\ wCur = [main |-> 0, watch |-> 0]
    /\ wWatch = "idle"
    /\ wCtx = FALSE
    /\ wDone = 0
    /\ wOut = <<>>
    /\ wClientOK = FALSE

WaitIdle ==
    /\ dpc = "idle"
    /\ dIn = [len |-> 0, sampleRate |-> 0, bits |-> 0, channels |-> 0]
    /\ dOut = 0

AuthIdle ==
    /\ usersByName = <<>>
    /\ usersByEmail = <<>>
    /\ users = <<>>
    /\ authLast = [op |-> "none", err |-> "", user |-> 0]

RoleIdle ==
    /\ postgres = [nil |-> TRUE, ids |-> {}]
    /\ mongo = [nil |-> TRUE, ids |-> {}]
    /\ roleLast = [req |-> "none", body |-> [json |-> FALSE, roleId |-> <<>>],
                   role |-> [err |-> "", id |-> <<>>, asked |-> <<>>,
                             pg |-> "skip"],
                   resp |-> [status |-> 0, id |-> <<>>]]

MuIdle ==
    /\ writeMu = "free"
    /\ spc = <<>>
    /\ nWritten = 0

SeqIdle == qpc = <<>>

HistIdle == cancelAt = "never"

SrIdle ==
    /\ mpc = "idle"
    /\ gpc = "none"
    /\ errCh = <<>>
    /\ sCtx = FALSE
    /\ sConn = FALSE
    /\ sFed = 0
    /\ sResults = <<>>
    /\ sRet = "none"

RegIdle ==
    /\ rgo = <<>>
    /\ authMu = [writer |-> 0, readers |-> {}]

MoreIdle == HistIdle /\ SrIdle /\ RegIdle

ExtIdle == WaitIdle /\ AuthIdle /\ RoleIdle /\ MuIdle /\ SeqIdle /\ MoreIdle

Init ==
    /\ pc = "recognize"
    /\ input \in Inputs
    /\ ctxDone = FALSE
    /\ expired = FALSE
    /\ dials = 0
    /\ restCalls = <<>>
    /\ offset = 0
    /\ finalText = <<>>
    /\ reqID = <<>>
    /\ durationMS = 0
    /\ lastRead = [kind |-> "none", msg |-> NoMsg]
    /\ lastDur = 0
    /\ skipped = FALSE
    /\ wsOut = Pending
    /\ restOut = Pending
    /\ result = Pending
    /\ WriterIdle
    /\ CodecIdle
    /\ BridgeIdle
    /\ PcmIdle
    /\ WsIdle
    /\ ExtIdle

Next ==
    \/ Recognize
    \/ RecognizeRESTUrl
    \/ WsExtract
    \/ WsDial
    \/ WsSendConfig
    \/ WsSendChunk
    \/ WsSendStop
    \/ LoopTop
    \/ \E m \in UpstreamMsgs : ReadMsg(m)
    \/ ReadClose
    \/ ReadTimeout
    \/ ReadError
    \/ WsFinish
    \/ RestFallback
    \/ Cancel
    \/ Tick

Spec == Init /\ [][Next]_vars

\* The steps the call takes on its own: the dial ends within its handshake
\* timeout, the REST call within the client's.
CallOwnSteps ==
    \/ Recognize
    \/ RecognizeRESTUrl
    \/ WsExtract
    \/ WsDial
    \/ WsSendConfig
    \/ WsSendChunk
    \/ WsSendStop
    \/ LoopTop
    \/ WsFinish
    \/ RestFallback

\* conn.ReadMessage returns: with a message, a close, an error, or at the
\* read deadline set at line 835
ReadReturns ==
    \/ \E m \in UpstreamMsgs : ReadMsg(m)
    \/ ReadClose
    \/ ReadTimeout
    \/ ReadError

\* the call runs, its reads return, and time passes
SpecFair ==
    Spec /\ WF_vars(CallOwnSteps) /\ WF_vars(ReadReturns) /\ WF_vars(Tick)

-----------------------------------------------------------------------------
(* SpecWriter: any sequence of SendConfig / SendAudioChunk / SendStop on   *)
(* one writer                                                              *)

\* a session that has already written 2^32 - 3 frames
NearWrap == <<65535, 65533>>

Chunks == { <<>>, <<7>>, <<7, 8>> }

\* sequence numbers handed out since the log started are fewer than MaxFrames
WriterBelowBound == seq \in { U32Add(sentBefore, k) : k \in 1..MaxFrames }

WSendConfig ==
    /\ WriterBelowBound
    /\ \E wrote \in BOOLEAN : SendConfig(DefaultSampleRate, 1, 16, wrote)
    /\ lastCall' = <<"config", 0>>
    /\ UNCHANGED <<orchVars, codecVars, bridgeVars, pcmVars, wsVars, extVars>>

WSendAudioChunk ==
    /\ WriterBelowBound
    /\ \E chunk \in Chunks :
          /\ \E wrote \in BOOLEAN : SendAudioChunk(chunk, wrote)
          /\ lastCall' = <<"audio", Len(chunk)>>
    /\ UNCHANGED <<orchVars, codecVars, bridgeVars, pcmVars, wsVars, extVars>>

WSendStop ==
    /\ WriterBelowBound
    /\ \E wrote \in BOOLEAN : SendStop(wrote)
    /\ lastCall' = <<"stop", 0>>
    /\ UNCHANGED <<orchVars, codecVars, bridgeVars, pcmVars, wsVars, extVars>>

InitWriter ==
    /\ sentBefore \in { U32Of(0), NearWrap }
    /\ seq = U32Add(sentBefore, 1)
    /\ frames = <<>>
    /\ connBroken = FALSE
    /\ lastCall = <<"new", 0>>
    /\ OrchIdle
    /\ CodecIdle
    /\ BridgeIdle
    /\ PcmIdle
    /\ WsIdle
    /\ ExtIdle

NextWriter == WSendConfig \/ WSendAudioChunk \/ WSendStop

SpecWriter == InitWriter /\ [][NextWriter]_vars

-----------------------------------------------------------------------------
(* SpecCodec: sendFrame's bytes decoded by parseASRWSBinaryMessage         *)

CodecTypes    == {1, 2, 4, 9}
CodecSeqs     == { U32Of(1), <<65535, 65535>> }
CodecPayloads ==
    { <<>>, <<1>>, <<1, 2, 3>>, <<123, 125>>, JsonBytes(1), JsonBytes(4) }

CodecEncode ==
    /\ cpc = "encode"
    /\ cFrame' = EncodeFrame(cType, cSeq, cPayload, cCompress)
    /\ cpc' = "decode"
    /\ UNCHANGED <<cType, cSeq, cCompress, cPayload, cDecoded>>
    /\ UNCHANGED <<orchVars, writerVars, bridgeVars, pcmVars, wsVars, extVars>>

CodecDecode ==
    /\ cpc = "decode"
    /\ cDecoded' = parseASRWSBinaryMessage(cFrame)
    /\ cpc' = "done"
    /\ UNCHANGED <<cType, cSeq, cCompress, cPayload, cFrame>>
    /\ UNCHANGED <<orchVars, writerVars, bridgeVars, pcmVars, wsVars, extVars>>

InitCodec ==
    /\ cpc = "encode"
    /\ cType \in CodecTypes
    /\ cSeq \in CodecSeqs
    /\ cCompress \in BOOLEAN
    /\ cPayload \in CodecPayloads
    /\ cFrame = <<>>
    /\ cDecoded = ParseFail("")
    /\ OrchIdle
    /\ WriterIdle
    /\ BridgeIdle
    /\ PcmIdle
    /\ WsIdle
    /\ ExtIdle

NextCodec == CodecEncode \/ CodecDecode

SpecCodec == InitCodec /\ [][NextCodec]_vars

-----------------------------------------------------------------------------
(* SpecPcm: extractPCMBuffer on its own                                    *)

\* "wav", "WAV", " wav ", "x/wav", "wave", "pcm", "mp3" and the empty format
PcmFormats ==
    { <<>>, StrWav, <<87, 65, 86>>, <<32>> \o StrWav \o <<32>>,
      <<120>> \o StrSWav, StrWave, StrPcm, StrMp3 }

PcmDatas ==
    { <<>>,
      Zeros(43),
      WavHeader(1, 10, 8),
      WavHeader(2, 10, 8) \o <<1>>,
      WavHeader(0, 0, 0) \o <<1, 2>>,
      WavHeader(1, 300, 16) \o <<1, 2, 3>>,
      <<5, 6>> }

ExtractPCM ==
    /\ ppc = "call"
    /\ pOut' = extractPCMBuffer(pFormat, pData, DefaultSampleRate)
    /\ ppc' = "done"
    /\ UNCHANGED <<pFormat, pData>>
    /\ UNCHANGED <<orchVars, writerVars, codecVars, bridgeVars, wsVars, extVars>>

InitPcm ==
    /\ ppc = "call"
    /\ pFormat \in PcmFormats
    /\ pData \in PcmDatas
    /\ pOut = PcmFail("")
    /\ OrchIdle
    /\ WriterIdle
    /\ CodecIdle
    /\ BridgeIdle
    /\ WsIdle
    /\ ExtIdle

NextPcm == ExtractPCM

SpecPcm == InitPcm /\ [][NextPcm]_vars

-----------------------------------------------------------------------------
(* SpecBridge: AudioHandler.HandleASRStream                                *)

\* Bound of the model: messages written to the client before the session's
\* last ones
MaxOut == 2

\* a message written to the client: type and text
ClientMsg(type, text) == [type |-> type, text |-> text]

\* sendJSON under writeMu: the message is written unless the client is gone
\* or the write fails; a failed write leaves the connection failing
sendJSON(msg, wrote) ==
    IF clientOK /\ wrote
    THEN clientOut' = Append(clientOut, msg) /\ clientOK' = clientOK
    ELSE clientOut' = clientOut /\ clientOK' = FALSE

\* the handler returns: its defers close the session, cancel ctx and close
\* the client connection
HReturn ==
    /\ hpc' = "done"
    /\ upOpen' = FALSE
    /\ hctxDone' = TRUE

\* a send on the buffered channel `results`, followed by the deferred close
ResultsSend(e) == results' = [buf |-> Append(results.buf, e), closed |-> TRUE]

\* the first client message (lines 174-202)
\* "ok" and "ping" are JSON objects that pass the checks: the `type` field
\* of the first message is not looked at
StartKinds ==
    {"read_error", "binary", "bad_json", "bad_format", "no_token", "ok", "ping"}

HStart ==
    /\ hpc = "start"
    /\ \E kind \in StartKinds :
          /\ lastClient' = kind
          /\ IF kind \in {"ok", "ping"}
             THEN /\ hpc' = "open"
                  /\ UNCHANGED <<clientOut, clientOK, upOpen, hctxDone>>
             ELSE IF kind = "read_error"
             THEN /\ HReturn
                  /\ UNCHANGED <<clientOut, clientOK>>
             ELSE /\ \E wrote \in BOOLEAN :
                        sendJSON(ClientMsg("error", <<>>), wrote)
                  /\ HReturn
    /\ UNCHANGED <<rpc, results, stopSent>>
    /\ UNCHANGED <<orchVars, writerVars, codecVars, pcmVars, wsVars, extVars>>

\* OpenStream that acknowledges before the config frame's outcome is known
HOpen_ReadyAnyway ==
    /\ hpc = "open"
    /\ \E dialed \in BOOLEAN, wroteCfg \in BOOLEAN, wrote \in BOOLEAN :
          IF ~dialed \/ hctxDone
          THEN /\ sendJSON(ClientMsg("error", <<>>), wrote)
               /\ HReturn
               /\ UNCHANGED <<rpc, writerVars>>
          ELSE /\ SendConfig(DefaultSampleRate, 1, 16, wroteCfg)
               /\ lastCall' = <<"config", 0>>
               /\ sendJSON(ClientMsg("ready", <<>>), wrote)
               /\ IF SendOK(wroteCfg)
                  THEN /\ upOpen' = TRUE
                       /\ hpc' = "loop"
                       /\ rpc' = "top"
                       /\ UNCHANGED hctxDone
                  ELSE /\ HReturn
                       /\ UNCHANGED rpc
    /\ UNCHANGED <<results, stopSent>>
    /\ UNCHANGED lastClient
    /\ UNCHANGED <<orchVars, codecVars, pcmVars, wsVars, extVars>>

\* OpenStream (lines 476-528), `ready` and the start of the relay goroutine
\* (lines 204-234)
HOpen ==
    /\ hpc = "open"
    /\ \E dialed \in BOOLEAN, wroteCfg \in BOOLEAN, wrote \in BOOLEAN :
          IF ~dialed \/ hctxDone
          THEN /\ sendJSON(ClientMsg("error", <<>>), wrote)
               /\ HReturn
               /\ UNCHANGED <<rpc, writerVars>>
          ELSE /\ SendConfig(DefaultSampleRate, 1, 16, wroteCfg)
               /\ lastCall' = <<"config", 0>>
               /\ IF SendOK(wroteCfg)
                  THEN /\ sendJSON(ClientMsg("ready", <<>>), wrote)
                       /\ upOpen' = TRUE
                       /\ hpc' = "loop"
                       /\ rpc' = "top"
                       /\ UNCHANGED hctxDone
                  ELSE /\ sendJSON(ClientMsg("error", <<>>), wrote)
                       /\ HReturn
                       /\ UNCHANGED rpc
    /\ UNCHANGED <<results, stopSent>>
    /\ UNCHANGED lastClient
    /\ UNCHANGED <<orchVars, codecVars, pcmVars, wsVars, extVars>>

\* the binary messages the bridge model lets the client send
BridgeChunks == { <<>>, <<7>>, <<8, 9>> }

\* as HAudio, but an empty binary message is forwarded as a frame too
HAudio_ForwardEmpty(chunk) ==
    /\ hpc = "loop"
    /\ Len(frames) < MaxFrames
    /\ lastClient' = IF Len(chunk) = 0 THEN "audio_empty" ELSE "audio"
    /\ \E sent \in BOOLEAN, wrote \in BOOLEAN :
          /\ sendFrame(2, chunk, TRUE, sent)
          /\ IF SendOK(sent)
             THEN UNCHANGED <<hpc, upOpen, hctxDone, clientOut, clientOK>>
             ELSE sendJSON(ClientMsg("error", <<>>), wrote) /\ HReturn
    /\ lastCall' = <<"audio", Len(chunk)>>
    /\ UNCHANGED <<rpc, results, stopSent>>
    /\ UNCHANGED <<orchVars, codecVars, pcmVars, wsVars, extVars>>

\* one turn of the client read loop, a binary message (lines 312-319)
HAudio(chunk) ==
    /\ hpc = "loop"
    /\ Len(frames) < MaxFrames
    /\ lastClient' = IF Len(chunk) = 0 THEN "audio_empty" ELSE "audio"
    /\ \E sent \in BOOLEAN, wrote \in BOOLEAN :
          /\ SendAudioChunk(chunk, sent)
          /\ IF Len(chunk) = 0 \/ SendOK(sent)
             THEN UNCHANGED <<hpc, upOpen, hctxDone, clientOut, clientOK>>
             ELSE sendJSON(ClientMsg("error", <<>>), wrote) /\ HReturn
    /\ lastCall' = <<"audio", Len(chunk)>>
    /\ UNCHANGED <<rpc, results, stopSent>>
    /\ UNCHANGED <<orchVars, codecVars, pcmVars, wsVars, extVars>>

\* one turn of the client read loop, any other outcome of the read
\* (lines 294-341)
ClientKinds ==
    {"bad_json", "stop", "ping", "other", "gone", "read_error"}

HClientMsg ==
    /\ hpc = "loop"
    /\ \E kind \in ClientKinds, wrote \in BOOLEAN :
          /\ lastClient' = kind
          /\ CASE kind = "bad_json" ->
                    /\ Len(clientOut) < MaxOut
                    /\ sendJSON(ClientMsg("error", <<>>), wrote)
                    /\ UNCHANGED <<hpc, upOpen, hctxDone, writerVars>>
               [] kind = "stop" ->
                    /\ hpc' = "stop"
                    /\ UNCHANGED <<upOpen, hctxDone, clientOut, clientOK, writerVars>>
               [] kind = "ping" ->
                    /\ Len(clientOut) < MaxOut
                    /\ sendJSON(ClientMsg("pong", <<>>), wrote)
                    /\ UNCHANGED <<hpc, upOpen, hctxDone, writerVars>>
               [] kind = "other" ->
                    UNCHANGED <<hpc, upOpen, hctxDone, clientOut, clientOK, writerVars>>
               [] kind = "gone" ->
                    /\ hpc' = "stop"
                    /\ clientOK' = FALSE
                    /\ UNCHANGED <<upOpen, hctxDone, clientOut, writerVars>>
               [] kind = "read_error" ->
                    /\ sendJSON(ClientMsg("error", <<>>), wrote)
                    /\ HReturn
                    /\ UNCHANGED writerVars
    /\ UNCHANGED <<rpc, results, stopSent>>
    /\ UNCHANGED <<orchVars, codecVars, pcmVars, wsVars, extVars>>

\* stopSession after the loop (lines 224-231, 343): the error of SendStop
\* is only logged
HStop ==
    /\ hpc = "stop"
    /\ \E sent \in BOOLEAN : SendStop(sent)
    /\ lastCall' = <<"stop", 0>>
    /\ stopSent' = TRUE
    /\ hpc' = "wait"
    /\ UNCHANGED <<rpc, results, hctxDone, clientOut, upOpen, clientOK>>
    /\ UNCHANGED lastClient
    /\ UNCHANGED <<orchVars, codecVars, pcmVars, wsVars, extVars>>

\* errors.Is(resultErr, context.Canceled) or context.DeadlineExceeded
Silenced(e) == e \in {"context canceled", "context deadline exceeded"}

\* the wait for the relay's result (lines 345-355): a value arrives
HWaitResult ==
    /\ hpc = "wait"
    /\ results.buf # <<>>
    /\ LET resultErr == Head(results.buf) IN
       IF resultErr # "nil" /\ ~Silenced(resultErr)
       THEN \E wrote \in BOOLEAN : sendJSON(ClientMsg("error", <<>>), wrote)
       ELSE UNCHANGED <<clientOut, clientOK>>
    /\ results' = [results EXCEPT !.buf = Tail(results.buf)]
    /\ HReturn
    /\ UNCHANGED <<rpc, stopSent>>
    /\ UNCHANGED lastClient
    /\ UNCHANGED <<orchVars, writerVars, codecVars, pcmVars, wsVars, extVars>>

\* the wait for the relay's result: five seconds pass with `results` empty,
\* resultErr is context.DeadlineExceeded and nothing is sent
HWaitTimeout ==
    /\ hpc = "wait"
    /\ results.buf = <<>>
    /\ HReturn
    /\ UNCHANGED <<rpc, results, clientOut, clientOK, stopSent>>
    /\ UNCHANGED lastClient
    /\ UNCHANGED <<orchVars, writerVars, codecVars, pcmVars, wsVars, extVars>>

\* relay goroutine, top of its loop (lines 236-240)
RelayTop ==
    /\ rpc = "top"
    /\ IF hctxDone
       THEN ResultsSend("context canceled") /\ rpc' = "done"
       ELSE rpc' = "read" /\ UNCHANGED results
    /\ UNCHANGED <<hpc, hctxDone, clientOut, upOpen, clientOK, stopSent>>
    /\ UNCHANGED lastClient
    /\ UNCHANGED <<orchVars, writerVars, codecVars, pcmVars, wsVars, extVars>>

\* relay goroutine: what the loop does with the event NextEvent returned
\* (lines 250-290)
RelayDeliver(event) ==
    /\ rpc = "read"
    /\ upOpen
    /\ IF event.err # ""
       THEN /\ ResultsSend(event.err)
            /\ rpc' = "done"
            /\ UNCHANGED <<clientOut, clientOK>>
       ELSE IF event.text = <<>> /\ Len(event.raw) = 0 /\ ~event.fin
       THEN /\ rpc' = "top"
            /\ UNCHANGED <<results, clientOut, clientOK>>
       ELSE /\ event.fin \/ Len(clientOut) < MaxOut
            /\ \E wrote \in BOOLEAN :
                  /\ sendJSON(ClientMsg(IF event.fin THEN "final" ELSE "partial",
                                        event.text), wrote)
                  /\ IF ~(clientOK /\ wrote)
                     THEN ResultsSend("write error") /\ rpc' = "done"
                     ELSE IF event.fin
                     THEN ResultsSend("nil") /\ rpc' = "done"
                     ELSE rpc' = "top" /\ UNCHANGED results
    /\ UNCHANGED <<hpc, hctxDone, upOpen, stopSent>>
    /\ UNCHANGED lastClient
    /\ UNCHANGED <<orchVars, writerVars, codecVars, pcmVars, wsVars, extVars>>

\* relay goroutine: NextEvent returns an event (lines 242-290)
RelayEvent(m) == RelayDeliver(NextEvent(m))

\* relay goroutine: NextEvent returns a read error: the upstream closed the
\* connection, the read deadline passed, or the session was closed locally
ReadErrors == {"close 1000", "i/o timeout", "unexpected EOF"}

RelayReadError ==
    /\ rpc = "read"
    /\ \E e \in ReadErrors : ResultsSend(IF upOpen THEN e ELSE "closed connection")
    /\ rpc' = "done"
    /\ UNCHANGED <<hpc, hctxDone, clientOut, upOpen, clientOK, stopSent>>
    /\ UNCHANGED lastClient
    /\ UNCHANGED <<orchVars, writerVars, codecVars, pcmVars, wsVars, extVars>>

\* the request's context is canceled
HCancel ==
    /\ hpc \in {"start", "open", "loop", "stop", "wait"}
    /\ ~hctxDone
    /\ hctxDone' = TRUE
    /\ UNCHANGED <<hpc, rpc, results, clientOut, upOpen, clientOK, stopSent>>
    /\ UNCHANGED lastClient
    /\ UNCHANGED <<orchVars, writerVars, codecVars, pcmVars, wsVars, extVars>>

\* the upstream messages the bridge model lets the provider send
BridgeMsgs ==
    { BinaryMsg(ServerFrame(k)) : k \in {1, 2, 4, 5, 6} }
    \cup { BinaryMsg(<<1, 2, 3>>), BinaryMsg(RawTextFrame), TextMsg(<<1>>) }

InitBridge ==
    /\ hpc = "start"
    /\ rpc = "idle"
    /\ results = [buf |-> <<>>, closed |-> FALSE]
    /\ hctxDone = FALSE
    /\ clientOut = <<>>
    /\ upOpen = FALSE
    /\ clientOK = TRUE
    /\ stopSent = FALSE
    /\ lastClient = "none"
    /\ PcmIdle
    /\ WsIdle
    /\ OrchIdle
    /\ WriterIdle
    /\ CodecIdle
    /\ ExtIdle

NextBridge ==
    \/ HStart
    \/ HOpen
    \/ \E chunk \in BridgeChunks : HAudio(chunk)
    \/ HClientMsg
    \/ HStop
    \/ HWaitResult
    \/ HWaitTimeout
    \/ RelayTop
    \/ \E m \in BridgeMsgs : RelayEvent(m)
    \/ RelayReadError
    \/ HCancel

SpecBridge == InitBridge /\ [][NextBridge]_vars

\* The steps the handler takes on its own: it waits for neither the client
\* nor the provider.  The wait for `results` ends after five seconds.
HandlerOwnSteps == HOpen \/ HStop \/ HWaitResult \/ HWaitTimeout

\* The steps the relay goroutine takes on its own; the read of NextEvent
\* returns at its deadline.
RelayOwnSteps == RelayTop \/ RelayReadError

BridgeOwnSteps == HandlerOwnSteps \/ RelayOwnSteps

\* the handler and the relay goroutine are scheduled independently
SpecBridgeFair ==
    SpecBridge /\ WF_vars(HandlerOwnSteps) /\ WF_vars(RelayOwnSteps)

-----------------------------------------------------------------------------
(* SpecWS: AudioHandler.HandleASRWebsocket, the bridge of nlp_handler.go   *)

\* Bound of the model: upstream sessions opened on one client connection
MaxSessions == 1

\* ParseASRWSMessage has the text of parseASRWSBinaryMessage
ParseASRWSMessage(data) == parseASRWSBinaryMessage(data)

\* ExtractTranscript(envelope): the first non-empty text of the known paths,
\* the finality marker, and the duration marker; the envelopes of the model
\* carry no top-level duration marker
ExtractTranscript(env) ==
    [text |-> IF env.dtext # <<>> THEN env.dtext ELSE env.text,
     fin  |-> env.fin,
     dur  |-> 0]

\* a session as OpenStream returns it: connected, the configuration frame
\* sent, its reader goroutine not yet started
NewSession ==
    [open |-> TRUE, closes |-> 0, frames |-> <<1>>, rd |-> "idle", cur |-> 0]

\* ASRStream.Close on the n-th session: closes the socket, whatever its
\* state
ASRStreamClose(n) ==
    wSess' = [wSess EXCEPT ![n].open = FALSE, ![n].closes = @ + 1]

\* upstreamOnce.Do(func() { close(upstreamDone) })
UpstreamOnceDo_NoGuard == wDone' = wDone + 1

UpstreamOnceDo == wDone' = IF wDone = 0 THEN 1 ELSE wDone

\* a message written to the client: type, text and is_final
WsMsg(type, text, fin) == [type |-> type, text |-> text, fin |-> fin]

\* sendJSON of HandleASRWebsocket: the write fails when the client is gone
wsSendJSON(msg) == wOut' = IF wClientOK THEN Append(wOut, msg) ELSE wOut

WsGoto(at, then) == wpc' = [at |-> at, then |-> then]

\* the n-th session's writer sends a frame of the given type
WriterSend(n, messageType) ==
    wSess' = [wSess EXCEPT ![n].frames = Append(@, messageType)]

\* client loop: a text message that is not JSON, a ping, or a message of
\* an unsupported type (lines 329-334, 399-404)
WControl ==
    /\ wpc.at = "loop"
    /\ Len(wOut) < MaxOut
    /\ \E kind \in {"bad_json", "ping", "other"} :
          wsSendJSON(WsMsg(IF kind = "ping" THEN "pong" ELSE "error", <<>>, FALSE))
    /\ UNCHANGED <<wpc, wStream, wSess, wCur, wWatch, wCtx, wDone, wClientOK>>
    /\ UNCHANGED <<orchVars, writerVars, codecVars, bridgeVars, pcmVars, extVars>>

\* client loop: "start" (lines 338-369): OpenStream
WStart ==
    /\ wpc.at = "loop"
    /\ \E opened \in BOOLEAN :
          IF wStream # 0 \/ ~opened \/ wCtx
          THEN /\ Len(wOut) < MaxOut
               /\ wsSendJSON(WsMsg("error", <<>>, FALSE))
               /\ UNCHANGED <<wpc, wSess>>
          ELSE /\ Len(wSess) < MaxSessions
               /\ wSess' = Append(wSess, NewSession)
               /\ WsGoto("assign", "return")
               /\ UNCHANGED wOut
    /\ UNCHANGED <<wStream, wCur, wWatch, wCtx, wDone, wClientOK>>
    /\ UNCHANGED <<orchVars, writerVars, codecVars, bridgeVars, pcmVars, extVars>>

\* client loop: "start" (lines 371-387): the session becomes `stream`, its
\* reader goroutine starts, `ready` is sent
WAssign ==
    /\ wpc.at = "assign"
    /\ wStream' = Len(wSess)
    /\ wSess' = [wSess EXCEPT ![Len(wSess)].rd = "read"]
    /\ wsSendJSON(WsMsg("ready", <<>>, FALSE))
    /\ IF wClientOK THEN WsGoto("loop", "return") ELSE WsGoto("cu1", "return")
    /\ UNCHANGED <<wCur, wWatch, wCtx, wDone, wClientOK>>
    /\ UNCHANGED <<orchVars, writerVars, codecVars, bridgeVars, pcmVars, extVars>>

\* client loop: "stop" (lines 389-397)
WStop ==
    /\ wpc.at = "loop"
    /\ IF wStream = 0
       THEN UNCHANGED <<wSess, wOut>>
       ELSE \E sent \in BOOLEAN :
               IF wSess[wStream].open /\ sent
               THEN /\ Len(wSess[wStream].frames) < MaxFrames
                    /\ WriterSend(wStream, 4)
                    /\ UNCHANGED wOut
               ELSE /\ Len(wOut) < MaxOut
                    /\ wsSendJSON(WsMsg("error", <<>>, FALSE))
                    /\ UNCHANGED wSess
    /\ UNCHANGED <<wpc, wStream, wCur, wWatch, wCtx, wDone, wClientOK>>
    /\ UNCHANGED <<orchVars, writerVars, codecVars, bridgeVars, pcmVars, extVars>>

\* client loop: a binary message (lines 406-418)
WAudio ==
    /\ wpc.at = "loop"
    /\ \E chunk \in {<<>>, <<7>>}, sent \in BOOLEAN :
          IF wStream = 0
          THEN /\ Len(wOut) < MaxOut
               /\ wsSendJSON(WsMsg("error", <<>>, FALSE))
               /\ UNCHANGED <<wpc, wSess>>
          ELSE IF Len(chunk) = 0
          THEN UNCHANGED <<wpc, wSess, wOut>>
          ELSE IF wSess[wStream].open /\ sent
          THEN /\ Len(wSess[wStream].frames) < MaxFrames
               /\ WriterSend(wStream, 2)
               /\ UNCHANGED <<wpc, wOut>>
          ELSE /\ wsSendJSON(WsMsg("error", <<>>, FALSE))
               /\ WsGoto("cu1", "return")
               /\ UNCHANGED wSess
    /\ UNCHANGED <<wStream, wCur, wWatch, wCtx, wDone, wClientOK>>
    /\ UNCHANGED <<orchVars, writerVars, codecVars, bridgeVars, pcmVars, extVars>>

\* client loop: the read of the client fails (lines 320-326); the loop
\* ends, and closeUpstream and the wait for upstreamDone follow
WClientReadErr ==
    /\ wpc.at = "loop"
    /\ wClientOK' = FALSE
    /\ WsGoto("cu1", "wait")
    /\ UNCHANGED <<wStream, wSess, wCur, wWatch, wCtx, wDone, wOut>>
    /\ UNCHANGED <<orchVars, writerVars, codecVars, bridgeVars, pcmVars, extVars>>

\* the handler returns: the deferred cancel() and conn.Close() run
WHandlerReturn ==
    /\ WsGoto("done", "return")
    /\ wCtx' = TRUE
    /\ wClientOK' = FALSE

\* closeUpstream in the handler (lines 255-264): under streamMu, `current`
\* takes the stream and `stream` becomes nil
WCloseSwap ==
    /\ wpc.at = "cu1"
    /\ wCur' = [wCur EXCEPT !.main = wStream]
    /\ wStream' = 0
    /\ wpc' = [wpc EXCEPT !.at = "cu2"]
    /\ UNCHANGED <<wSess, wWatch, wCtx, wDone, wOut, wClientOK>>
    /\ UNCHANGED <<orchVars, writerVars, codecVars, bridgeVars, pcmVars, extVars>>

\* closeUpstream in the handler: current.Close() when current is not nil
WCloseConn ==
    /\ wpc.at = "cu2"
    /\ IF wCur.main # 0 THEN ASRStreamClose(wCur.main) ELSE UNCHANGED wSess
    /\ wpc' = [wpc EXCEPT !.at = "cu3"]
    /\ UNCHANGED <<wStream, wCur, wWatch, wCtx, wDone, wOut, wClientOK>>
    /\ UNCHANGED <<orchVars, writerVars, codecVars, bridgeVars, pcmVars, extVars>>

\* as WCloseOnce, but upstreamDone is closed only by a closeUpstream that
\* closed a session
WCloseOnce_SkipOnce ==
    /\ wpc.at = "cu3"
    /\ IF wCur.main # 0 THEN UpstreamOnceDo ELSE UNCHANGED wDone
    /\ IF wpc.then = "wait"
       THEN WsGoto("wait", "return") /\ UNCHANGED <<wCtx, wClientOK>>
       ELSE WHandlerReturn
    /\ UNCHANGED <<wStream, wSess, wCur, wWatch, wOut>>
    /\ UNCHANGED <<orchVars, writerVars, codecVars, bridgeVars, pcmVars, extVars>>

\* closeUpstream in the handler: upstreamOnce.Do; then the handler returns
\* or goes on to wait for upstreamDone
WCloseOnce ==
    /\ wpc.at = "cu3"
    /\ UpstreamOnceDo
    /\ IF wpc.then = "wait"
       THEN WsGoto("wait", "return") /\ UNCHANGED <<wCtx, wClientOK>>
       ELSE WHandlerReturn
    /\ UNCHANGED <<wStream, wSess, wCur, wWatch, wOut>>
    /\ UNCHANGED <<orchVars, writerVars, codecVars, bridgeVars, pcmVars, extVars>>

\* <-upstreamDone at the end of the handler (lines 429-431)
WAwait ==
    /\ wpc.at = "wait"
    /\ wDone >= 1
    /\ WHandlerReturn
    /\ UNCHANGED <<wStream, wSess, wCur, wWatch, wDone, wOut>>
    /\ UNCHANGED <<orchVars, writerVars, codecVars, bridgeVars, pcmVars, extVars>>

\* the watcher goroutine (lines 266-269): <-ctx.Done()
WatchWake ==
    /\ wWatch = "wait"
    /\ wCtx
    /\ wWatch' = "cu1"
    /\ UNCHANGED <<wpc, wStream, wSess, wCur, wCtx, wDone, wOut, wClientOK>>
    /\ UNCHANGED <<orchVars, writerVars, codecVars, bridgeVars, pcmVars, extVars>>

\* closeUpstream in the watcher goroutine, step by step
WatchSwap ==
    /\ wWatch = "cu1"
    /\ wCur' = [wCur EXCEPT !.watch = wStream]
    /\ wStream' = 0
    /\ wWatch' = "cu2"
    /\ UNCHANGED <<wpc, wSess, wCtx, wDone, wOut, wClientOK>>
    /\ UNCHANGED <<orchVars, writerVars, codecVars, bridgeVars, pcmVars, extVars>>

WatchConn ==
    /\ wWatch = "cu2"
    /\ IF wCur.watch # 0 THEN ASRStreamClose(wCur.watch) ELSE UNCHANGED wSess
    /\ wWatch' = "cu3"
    /\ UNCHANGED <<wpc, wStream, wCur, wCtx, wDone, wOut, wClientOK>>
    /\ UNCHANGED <<orchVars, writerVars, codecVars, bridgeVars, pcmVars, extVars>>

WatchOnce ==
    /\ wWatch = "cu3"
    /\ UpstreamOnceDo
    /\ wWatch' = "done"
    /\ UNCHANGED <<wpc, wStream, wSess, wCur, wCtx, wOut, wClientOK>>
    /\ UNCHANGED <<orchVars, writerVars, codecVars, bridgeVars, pcmVars, extVars>>

\* the reader goroutine of the n-th session (lines 272-282): the read of
\* the upstream fails
ReaderErr(n) ==
    /\ n \in 1..Len(wSess)
    /\ wSess[n].rd = "read"
    /\ wsSendJSON(WsMsg("error", <<>>, FALSE))
    /\ wSess' = [wSess EXCEPT ![n].rd = "cu1"]
    /\ UNCHANGED <<wpc, wStream, wCur, wWatch, wCtx, wDone, wClientOK>>
    /\ UNCHANGED <<orchVars, writerVars, codecVars, bridgeVars, pcmVars, extVars>>

\* what the reader does with a binary message that was parsed (lines
\* 291-305)
ReaderTranscript(n, p) ==
    LET t == ExtractTranscript(p.env) IN
    IF wClientOK
    THEN /\ Len(wOut) < MaxOut
         /\ wOut' = Append(wOut, WsMsg("transcript", t.text, t.fin))
         /\ UNCHANGED wSess
    ELSE /\ wSess' = [wSess EXCEPT ![n].rd = "cu1"]
         /\ UNCHANGED wOut

\* the reader goroutine of the n-th session (lines 284-314): a message
ReaderMsg(n, m) ==
    /\ n \in 1..Len(wSess)
    /\ wSess[n].rd = "read"
    /\ wSess[n].open
    /\ IF m.mt = "binary"
       THEN IF ParseASRWSMessage(m.payload).err # ""
            THEN /\ Len(wOut) < MaxOut
                 /\ wsSendJSON(WsMsg("error", <<>>, FALSE))
                 /\ UNCHANGED wSess
            ELSE ReaderTranscript(n, ParseASRWSMessage(m.payload))
       ELSE IF TrimSpace(m.payload) # <<>>
       THEN /\ Len(wOut) < MaxOut
            /\ wsSendJSON(WsMsg("upstream", TrimSpace(m.payload), FALSE))
            /\ UNCHANGED wSess
       ELSE UNCHANGED <<wSess, wOut>>
    /\ UNCHANGED <<wpc, wStream, wCur, wWatch, wCtx, wDone, wClientOK>>
    /\ UNCHANGED <<orchVars, writerVars, codecVars, bridgeVars, pcmVars, extVars>>

\* the deferred closeUpstream of the n-th reader goroutine, step by step
ReaderSwap(n) ==
    /\ n \in 1..Len(wSess)
    /\ wSess[n].rd = "cu1"
    /\ wSess' = [wSess EXCEPT ![n].cur = wStream, ![n].rd = "cu2"]
    /\ wStream' = 0
    /\ UNCHANGED <<wpc, wCur, wWatch, wCtx, wDone, wOut, wClientOK>>
    /\ UNCHANGED <<orchVars, writerVars, codecVars, bridgeVars, pcmVars, extVars>>

\* as ReaderConn, but the reader drops `current` without closing it
ReaderConn_NoClose(n) ==
    /\ n \in 1..Len(wSess)
    /\ wSess[n].rd = "cu2"
    /\ wSess' = [wSess EXCEPT ![n].rd = "cu3"]
    /\ UNCHANGED <<wpc, wStream, wCur, wWatch, wCtx, wDone, wOut, wClientOK>>
    /\ UNCHANGED <<orchVars, writerVars, codecVars, bridgeVars, pcmVars, extVars>>

ReaderConn(n) ==
    /\ n \in 1..Len(wSess)
    /\ wSess[n].rd = "cu2"
    /\ LET c == wSess[n].cur IN
       wSess' = [k \in 1..Len(wSess) |->
                   [wSess[k] EXCEPT
                      !.open = IF k = c THEN FALSE ELSE @,
                      !.closes = IF k = c THEN @ + 1 ELSE @,
                      !.rd = IF k = n THEN "cu3" ELSE @]]
    /\ UNCHANGED <<wpc, wStream, wCur, wWatch, wCtx, wDone, wOut, wClientOK>>
    /\ UNCHANGED <<orchVars, writerVars, codecVars, bridgeVars, pcmVars, extVars>>

ReaderOnce(n) ==
    /\ n \in 1..Len(wSess)
    /\ wSess[n].rd = "cu3"
    /\ UpstreamOnceDo
    /\ wSess' = [wSess EXCEPT ![n].rd = "done"]
    /\ UNCHANGED <<wpc, wStream, wCur, wWatch, wCtx, wOut, wClientOK>>
    /\ UNCHANGED <<orchVars, writerVars, codecVars, bridgeVars, pcmVars, extVars>>

\* the request's context is canceled
WCancel ==
    /\ wpc.at \notin {"idle", "done"}
    /\ ~wCtx
    /\ wCtx' = TRUE
    /\ UNCHANGED <<wpc, wStream, wSess, wCur, wWatch, wDone, wOut, wClientOK>>
    /\ UNCHANGED <<orchVars, writerVars, codecVars, bridgeVars, pcmVars, extVars>>

\* the upstream messages the model lets the provider send
WsMsgs ==
    { BinaryMsg(ServerFrame(1)), BinaryMsg(ServerFrame(2)),
      BinaryMsg(<<1, 2, 3>>), TextMsg(<<32, 115>>) }

InitWS ==
    /\ wpc = [at |-> "loop", then |-> "return"]
    /\ wStream = 0
    /\ wSess = <<>>
    /\ wCur = [main |-> 0, watch |-> 0]
    /\ wWatch = "wait"
    /\ wCtx = FALSE
    /\ wDone = 0
    /\ wOut = <<>>
    /\ wClientOK = TRUE
    /\ OrchIdle
    /\ WriterIdle
    /\ CodecIdle
    /\ BridgeIdle
    /\ PcmIdle
    /\ ExtIdle

NextWS ==
    \/ WControl
    \/ WStart
    \/ WAssign
    \/ WStop
    \/ WAudio
    \/ WClientReadErr
    \/ WCloseSwap
    \/ WCloseConn
    \/ WCloseOnce
    \/ WAwait
    \/ WatchWake
    \/ WatchSwap
    \/ WatchConn
    \/ WatchOnce
    \/ \E n \in 1..MaxSessions : ReaderErr(n)
    \/ \E n \in 1..MaxSessions, m \in WsMsgs : ReaderMsg(n, m)
    \/ \E n \in 1..MaxSessions : ReaderSwap(n)
    \/ \E n \in 1..MaxSessions : ReaderConn(n)
    \/ \E n \in 1..MaxSessions : ReaderOnce(n)
    \/ WCancel

SpecWS == InitWS /\ [][NextWS]_vars

\* The steps the handler, the watcher and the reader goroutines take on
\* their own; they wait for neither the client nor the provider.
WsOwnSteps ==
    \/ WAssign
    \/ WCloseSwap
    \/ WCloseConn
    \/ WCloseOnce
    \/ WAwait
    \/ WatchWake
    \/ WatchSwap
    \/ WatchConn
    \/ WatchOnce
    \/ \E n \in 1..MaxSessions : ReaderSwap(n) \/ ReaderConn(n) \/ ReaderOnce(n)

\* the read of a closed upstream connection returns an error
ClosedReadFails ==
    \E n \in 1..MaxSessions :
        /\ n \in 1..Len(wSess)
        /\ ~wSess[n].open
        /\ ReaderErr(n)

SpecWSFair == SpecWS /\ WF_vars(WsOwnSteps) /\ WF_vars(ClosedReadFails)

-----------------------------------------------------------------------------
(* SpecWait: the adaptive read deadline of recognizeWebsocket              *)
(* (asr_service.go lines 773-803).  Durations are counted in microseconds; *)
(* the conversions of a float64 to a time.Duration truncate, which is the  *)
(* integer division here.                                                  *)

\* time.Second, in the model's unit
Second == 1000000

\* bytesPerSample (lines 773-776)
WaitBytesPerSample(bits) == IF bits \div 8 <= 0 THEN 2 ELSE bits \div 8

\* audioDuration (lines 785-792)
AudioDuration(len, sampleRate, bits, channels) ==
    LET bps == WaitBytesPerSample(bits)
        ch  == IF channels <= 0 THEN 1 ELSE channels
    IN  IF sampleRate > 0 /\ bps > 0 /\ ch > 0
        THEN (len * Second) \div (bps * ch * sampleRate)
        ELSE 0

\* maxWait without the cap of five minutes
MaxWait_NoCap(len, sampleRate, bits, channels) ==
    LET audioDuration == AudioDuration(len, sampleRate, bits, channels)
        calculated    == (audioDuration * 3) \div 2 + 30 * Second
    IN  IF audioDuration > 0 /\ calculated > 90 * Second
        THEN calculated
        ELSE 90 * Second

\* maxWait (lines 794-803)
MaxWait(len, sampleRate, bits, channels) ==
    LET audioDuration == AudioDuration(len, sampleRate, bits, channels)
        calculated    == (audioDuration * 3) \div 2 + 30 * Second
        maxWait       == IF audioDuration > 0 /\ calculated > 90 * Second
                         THEN calculated
                         ELSE 90 * Second
    IN  IF maxWait > 5 * 60 * Second THEN 5 * 60 * Second ELSE maxWait

\* len(pcm) of the calls: never 0 (line 735)
WaitLens == {1, 2, 39, 40, 41, 60, 100, 179, 180, 181, 400, 700}

\* what extractPCMBuffer hands on: rate, bits and channels are positive
WaitFormats ==
    { [sampleRate |-> 1, bits |-> 8, channels |-> 1],
      [sampleRate |-> 1, bits |-> 16, channels |-> 1],
      [sampleRate |-> 1, bits |-> 4, channels |-> 1],
      [sampleRate |-> 2, bits |-> 8, channels |-> 2],
      [sampleRate |-> DefaultSampleRate, bits |-> 16, channels |-> 1],
      [sampleRate |-> 4000000, bits |-> 16, channels |-> 2] }

ComputeMaxWait ==
    /\ dpc = "call"
    /\ dOut' = MaxWait(dIn.len, dIn.sampleRate, dIn.bits, dIn.channels)
    /\ dpc' = "done"
    /\ UNCHANGED dIn
    /\ UNCHANGED <<authVars, roleVars, muVars, seqVars, moreVars>>
    /\ UNCHANGED <<orchVars, writerVars, codecVars, bridgeVars, pcmVars, wsVars>>

InitWait ==
    /\ dpc = "call"
    /\ \E len \in WaitLens, f \in WaitFormats :
          dIn = [len |-> len, sampleRate |-> f.sampleRate, bits |-> f.bits,
                 channels |-> f.channels]
    /\ dOut = 0
    /\ AuthIdle /\ RoleIdle /\ MuIdle /\ SeqIdle /\ MoreIdle
    /\ OrchIdle
    /\ WriterIdle
    /\ CodecIdle
    /\ BridgeIdle
    /\ PcmIdle
    /\ WsIdle

NextWait == ComputeMaxWait

SpecWait == InitWait /\ [][NextWait]_vars

-----------------------------------------------------------------------------
(* SpecAuth: auth.Service, the in-memory user store (config/config.go,     *)
(* package auth).  A *models.User is the index of the user in `users`; a   *)
(* Go map is a function whose domain is the set of its keys.               *)

\* Bounds of the model: users registered, and logins that touch UpdatedAt
MaxUsers == 2
MaxLogins == 1

\* normalizeEmail
normalizeEmail(email) == TrimSpace(ToLower(email))

\* bcrypt.GenerateFromPassword: the hash is not the password; it is
\* written here as the password behind a '$'
bcryptHash(password) == <<36>> \o password

\* bcrypt.CompareHashAndPassword returns nil
bcryptMatches(hash, password) == hash = bcryptHash(password)

\* m[key] = value on a Go map
MapSet(m, key, value) ==
    [k \in (DOMAIN m) \cup {key} |-> IF k = key THEN value ELSE m[k]]

\* lookupUserLocked: 0 is nil
lookupUserLocked(identifier) ==
    LET key == ToLower(identifier) IN
    IF key \in DOMAIN usersByName THEN usersByName[key]
    ELSE IF normalizeEmail(identifier) \in DOMAIN usersByEmail
    THEN usersByEmail[normalizeEmail(identifier)]
    ELSE 0

\* as RegisterError, but the username is looked up as typed
RegisterError_CaseSensitive(req) ==
    LET username == TrimSpace(req.username) IN
    IF username = <<>> THEN "ErrUsernameRequired"
    ELSE IF Len(TrimSpace(req.password)) < 6 THEN "ErrPasswordTooWeak"
    ELSE IF username \in DOMAIN usersByName THEN "ErrUserExists"
    ELSE IF /\ normalizeEmail(req.email) # <<>>
            /\ normalizeEmail(req.email) \in DOMAIN usersByEmail
    THEN "ErrEmailExists"
    ELSE ""

\* Register: the error it returns, "" for nil (lines 202-239)
RegisterError(req) ==
    LET username == TrimSpace(req.username) IN
    IF username = <<>> THEN "ErrUsernameRequired"
    ELSE IF Len(TrimSpace(req.password)) < 6 THEN "ErrPasswordTooWeak"
    ELSE IF ToLower(username) \in DOMAIN usersByName THEN "ErrUserExists"
    ELSE IF /\ normalizeEmail(req.email) # <<>>
            /\ normalizeEmail(req.email) \in DOMAIN usersByEmail
    THEN "ErrEmailExists"
    ELSE ""

\* Login: the error it returns and the user it found (lines 261-276)
LoginOutcome(req) ==
    LET identifier == TrimSpace(req.identifier)
        user       == lookupUserLocked(identifier)
    IN  IF identifier = <<>> \/ TrimSpace(req.password) = <<>>
        THEN [err |-> "ErrInvalidCredentials", user |-> 0]
        ELSE IF user = 0
        THEN [err |-> "ErrInvalidCredentials", user |-> 0]
        ELSE IF ~bcryptMatches(users[user].passwordHash, req.password)
        THEN [err |-> "ErrInvalidCredentials", user |-> 0]
        ELSE [err |-> "", user |-> user]

\* Register (lines 199-256)
Register(req) ==
    /\ Len(users) < MaxUsers
    /\ LET err      == RegisterError(req)
           username == TrimSpace(req.username)
           emailKey == normalizeEmail(req.email)
           id       == Len(users) + 1
       IN  IF err # ""
           THEN /\ authLast' = [op |-> "register", err |-> err, user |-> 0]
                /\ UNCHANGED <<usersByName, usersByEmail, users>>
           ELSE /\ users' = Append(users,
                              [username |-> username,
                               email |-> TrimSpace(req.email),
                               passwordHash |-> bcryptHash(req.password),
                               updatedAt |-> 0])
                /\ usersByName' = MapSet(usersByName, ToLower(username), id)
                /\ usersByEmail' = IF emailKey # <<>>
                                   THEN MapSet(usersByEmail, emailKey, id)
                                   ELSE usersByEmail
                /\ authLast' = [op |-> "register", err |-> "", user |-> id]
    /\ UNCHANGED <<waitVars, roleVars, muVars, seqVars, moreVars>>
    /\ UNCHANGED <<orchVars, writerVars, codecVars, bridgeVars, pcmVars, wsVars>>

\* Login (lines 258-292)
Login(req) ==
    /\ LET out == LoginOutcome(req) IN
       /\ authLast' = [op |-> "login", err |-> out.err, user |-> out.user]
       /\ IF out.err = ""
          THEN /\ users[out.user].updatedAt < MaxLogins
               /\ users' = [users EXCEPT ![out.user].updatedAt = @ + 1]
          ELSE UNCHANGED users
    /\ UNCHANGED <<usersByName, usersByEmail>>
    /\ UNCHANGED <<waitVars, roleVars, muVars, seqVars, moreVars>>
    /\ UNCHANGED <<orchVars, writerVars, codecVars, bridgeVars, pcmVars, wsVars>>

\* the inputs of the calls: "a", "A", "x@" and a blank as usernames; no
\* email, "x@", "X@" and "a" as emails; two passwords, a short one and one
\* that is short once trimmed
Password1 == <<49, 49, 49, 49, 49, 49>>
Password2 == <<50, 50, 50, 50, 50, 50>>

RegisterInputs ==
    [username : { <<97>>, <<65>>, <<120, 64>>, <<32>> },
     email    : { <<>>, <<120, 64>>, <<88, 64>>, <<97>> },
     password : { Password1, Password2, <<49>>, <<32, 32, 32, 32, 32, 49>> }]

LoginInputs ==
    [identifier : { <<97>>, <<65>>, <<120, 64>>, <<88, 64>>, <<98>>, <<32>> },
     password   : { Password1, Password2, <<49>> }]

InitAuth ==
    /\ usersByName = <<>>
    /\ usersByEmail = <<>>
    /\ users = <<>>
    /\ authLast = [op |-> "none", err |-> "", user |-> 0]
    /\ WaitIdle /\ RoleIdle /\ MuIdle /\ SeqIdle /\ MoreIdle
    /\ OrchIdle
    /\ WriterIdle
    /\ CodecIdle
    /\ BridgeIdle
    /\ PcmIdle
    /\ WsIdle

NextAuth ==
    \/ \E req \in RegisterInputs : Register(req)
    \/ \E req \in LoginInputs : Login(req)

SpecAuth == InitAuth /\ [][NextAuth]_vars

-----------------------------------------------------------------------------
(* SpecRole: POST /api/role/select (api.Handler.handleRoleSelect and       *)
(* fetchRole, unnamed/part_018).  A store is [nil, ids]: whether it is not *)
(* configured, and the set of the role ids it holds.                       *)

\* role ids: "1", "2", "3"
RoleIDs == { <<49>>, <<50>>, <<51>> }

\* a query runs on a store and returns one of ErrNoRows / ErrNoDocuments,
\* a row, or, when `fails`, another error
StoreQuery(store, roleID, fails) ==
    IF fails THEN "error" ELSE IF roleID \in store.ids THEN "row" ELSE "none"

\* as fetchRole, but MongoDB is asked as well when the Postgres query fails
fetchRole_FallBackOnError(roleID, pgFails, mongoFails) ==
    LET pg == IF postgres.nil THEN "skip"
              ELSE StoreQuery(postgres, roleID, pgFails)
        mg == IF mongo.nil THEN "skip"
              ELSE StoreQuery(mongo, roleID, mongoFails)
    IN  IF pg = "row"
        THEN [err |-> "", id |-> roleID, asked |-> <<"postgres">>, pg |-> pg]
        ELSE IF mg = "skip"
        THEN [err |-> "role not found", id |-> <<>>,
              asked |-> IF pg = "skip" THEN <<>> ELSE <<"postgres">>, pg |-> pg]
        ELSE [err |-> IF mg = "row" THEN ""
                      ELSE IF mg = "none" THEN "role not found"
                      ELSE "mongo query role",
              id |-> IF mg = "row" THEN roleID ELSE <<>>,
              asked |-> IF pg = "skip" THEN <<"mongo">>
                        ELSE <<"postgres", "mongo">>,
              pg |-> pg]

\* fetchRole: the error ("" for nil), the id of the role returned, the
\* stores asked in order, and what the Postgres query returned
fetchRole(roleID, pgFails, mongoFails) ==
    LET pg == IF postgres.nil THEN "skip"
              ELSE StoreQuery(postgres, roleID, pgFails)
        mg == IF mongo.nil THEN "skip"
              ELSE StoreQuery(mongo, roleID, mongoFails)
    IN  IF pg = "row"
        THEN [err |-> "", id |-> roleID, asked |-> <<"postgres">>, pg |-> pg]
        ELSE IF pg = "error"
        THEN [err |-> "postgres query role", id |-> <<>>,
              asked |-> <<"postgres">>, pg |-> pg]
        ELSE IF mg = "skip"
        THEN [err |-> "role not found", id |-> <<>>,
              asked |-> IF pg = "skip" THEN <<>> ELSE <<"postgres">>, pg |-> pg]
        ELSE [err |-> IF mg = "row" THEN ""
                      ELSE IF mg = "none" THEN "role not found"
                      ELSE "mongo query role",
              id |-> IF mg = "row" THEN roleID ELSE <<>>,
              asked |-> IF pg = "skip" THEN <<"mongo">>
                        ELSE <<"postgres", "mongo">>,
              pg |-> pg]

\* the response of handleRoleSelect to a lookup's result (lines 167-183)
RoleResponse(role) ==
    IF role.err = "" THEN [status |-> 200, id |-> role.id]
    ELSE IF role.err = "role not found" THEN [status |-> 404, id |-> <<>>]
    ELSE [status |-> 500, id |-> <<>>]

NoLookup == [err |-> "", id |-> <<>>, asked |-> <<>>, pg |-> "skip"]

\* handleRoleSelect; `body` is [json, roleId]: whether the body binds as
\* JSON, and the roleId it carries
handleRoleSelect(body) ==
    /\ roleLast.req = "none"
    /\ IF ~body.json \/ body.roleId = <<>>
       THEN roleLast' = [req |-> "select", body |-> body, role |-> NoLookup,
                         resp |-> [status |-> 400, id |-> <<>>]]
       ELSE \E pgFails \in BOOLEAN, mongoFails \in BOOLEAN :
               LET role == fetchRole(body.roleId, pgFails, mongoFails) IN
               roleLast' = [req |-> "select", body |-> body, role |-> role,
                            resp |-> RoleResponse(role)]
    /\ UNCHANGED <<postgres, mongo>>
    /\ UNCHANGED <<waitVars, authVars, muVars, seqVars, moreVars>>
    /\ UNCHANGED <<orchVars, writerVars, codecVars, bridgeVars, pcmVars, wsVars>>

\* what the stores may hold; "3" is in neither
RoleStores ==
    { [nil |-> TRUE, ids |-> {}] }
    \cup { [nil |-> FALSE, ids |-> ids] : ids \in SUBSET { <<49>>, <<50>> } }

\* the bodies of the requests
RoleBodies ==
    { [json |-> FALSE, roleId |-> <<>>], [json |-> TRUE, roleId |-> <<>>] }
    \cup { [json |-> TRUE, roleId |-> id] : id \in RoleIDs }

InitRole ==
    /\ postgres \in RoleStores
    /\ mongo \in RoleStores
    /\ roleLast = [req |-> "none", body |-> [json |-> FALSE, roleId |-> <<>>],
                   role |-> NoLookup,
                   resp |-> [status |-> 0, id |-> <<>>]]
    /\ WaitIdle /\ AuthIdle /\ MuIdle /\ SeqIdle /\ MoreIdle
    /\ OrchIdle
    /\ WriterIdle
    /\ CodecIdle
    /\ BridgeIdle
    /\ PcmIdle
    /\ WsIdle

NextRole == \E body \in RoleBodies : handleRoleSelect(body)

SpecRole == InitRole /\ [][NextRole]_vars

-----------------------------------------------------------------------------
(* SpecMutex: sendJSON of the bridge handlers, a step at a time            *)
(* (audio_handler.go lines 164-172, nlp_handler.go lines 238-253).  The    *)
(* client read loop writes `ready`, `error` and `pong`; the goroutines     *)
(* that relay upstream messages write transcripts and `error`.             *)

\* Bound of the model: messages written to the client
MaxWrites == 3

\* the goroutines that call sendJSON: the handler's client loop, the relay
\* goroutine, and the reader of an earlier session that is ending
Writers == {"loop", "relay", "reader"}

\* what a goroutine sends
MessagesOf(g) ==
    IF g = "loop" THEN {"ready", "error", "pong"}
    ELSE {"partial", "final", "error"}

NotSending == [at |-> "idle", msg |-> "none"]

\* a goroutine calls sendJSON
SendJSONCall(g) ==
    /\ spc[g].at = "idle"
    /\ nWritten < MaxWrites
    /\ \E msg \in MessagesOf(g) : spc' = [spc EXCEPT ![g] = [at |-> "lock", msg |-> msg]]
    /\ UNCHANGED <<writeMu, nWritten>>
    /\ UNCHANGED <<waitVars, authVars, roleVars, seqVars, moreVars>>
    /\ UNCHANGED <<orchVars, writerVars, codecVars, bridgeVars, pcmVars, wsVars>>

\* as WriteMuLock, but the lock is taken whoever holds it
WriteMuLock_NoWait(g) ==
    /\ spc[g].at = "lock"
    /\ writeMu' = g
    /\ spc' = [spc EXCEPT ![g].at = "write"]
    /\ UNCHANGED nWritten
    /\ UNCHANGED <<waitVars, authVars, roleVars, seqVars, moreVars>>
    /\ UNCHANGED <<orchVars, writerVars, codecVars, bridgeVars, pcmVars, wsVars>>

\* writeMu.Lock() returns
WriteMuLock(g) ==
    /\ spc[g].at = "lock"
    /\ writeMu = "free"
    /\ writeMu' = g
    /\ spc' = [spc EXCEPT ![g].at = "write"]
    /\ UNCHANGED nWritten
    /\ UNCHANGED <<waitVars, authVars, roleVars, seqVars, moreVars>>
    /\ UNCHANGED <<orchVars, writerVars, codecVars, bridgeVars, pcmVars, wsVars>>

\* conn.WriteJSON(payload) returns
ConnWriteJSON(g) ==
    /\ spc[g].at = "write"
    /\ nWritten' = nWritten + 1
    /\ spc' = [spc EXCEPT ![g].at = "unlock"]
    /\ UNCHANGED writeMu
    /\ UNCHANGED <<waitVars, authVars, roleVars, seqVars, moreVars>>
    /\ UNCHANGED <<orchVars, writerVars, codecVars, bridgeVars, pcmVars, wsVars>>

\* the deferred writeMu.Unlock()
WriteMuUnlock(g) ==
    /\ spc[g].at = "unlock"
    /\ writeMu' = "free"
    /\ spc' = [spc EXCEPT ![g] = NotSending]
    /\ UNCHANGED nWritten
    /\ UNCHANGED <<waitVars, authVars, roleVars, seqVars, moreVars>>
    /\ UNCHANGED <<orchVars, writerVars, codecVars, bridgeVars, pcmVars, wsVars>>

InitMutex ==
    /\ writeMu = "free"
    /\ spc = [g \in Writers |-> NotSending]
    /\ nWritten = 0
    /\ WaitIdle /\ AuthIdle /\ RoleIdle /\ SeqIdle /\ MoreIdle
    /\ OrchIdle
    /\ WriterIdle
    /\ CodecIdle
    /\ BridgeIdle
    /\ PcmIdle
    /\ WsIdle

NextMutex ==
    \E g \in Writers :
        \/ SendJSONCall(g)
        \/ WriteMuLock(g)
        \/ ConnWriteJSON(g)
        \/ WriteMuUnlock(g)

SpecMutex == InitMutex /\ [][NextMutex]_vars

-----------------------------------------------------------------------------
(* SpecSeq: sendFrame a step at a time, as the goroutines of a bridge      *)
(* handler run it (asr_service.go lines 1085-1112; audio_handler.go lines  *)
(* 234-343; nlp_handler.go lines 255-317, 389-418).  sendFrame takes no    *)
(* lock.  The handler's client loop is the goroutine that forwards audio   *)
(* and sends the stop frame; the relay goroutine reads the upstream        *)
(* connection; teardown closes the connection from either.                 *)

\* the goroutines of one session
SessionGoroutines == {"loop", "relay"}

QAt(at, messageType, seqBytes) ==
    [at |-> at, messageType |-> messageType, seqBytes |-> seqBytes]

\* the client loop calls SendAudio with a non-empty chunk (type 2) or
\* SendStop (type 4): sendFrame builds the header
QCall(g) ==
    /\ g = "loop"
    /\ qpc[g].at = "idle"
    /\ IntOf(seq) <= MaxFrames
    /\ \E messageType \in {2, 4} :
          qpc' = [qpc EXCEPT ![g] = QAt("header", messageType, U32Of(0))]
    /\ UNCHANGED writerVars
    /\ UNCHANGED <<waitVars, authVars, roleVars, muVars, moreVars>>
    /\ UNCHANGED <<orchVars, codecVars, bridgeVars, pcmVars, wsVars>>

\* binary.BigEndian.PutUint32(seqBytes, w.seq)
QPutSeq(g) ==
    /\ qpc[g].at = "header"
    /\ qpc' = [qpc EXCEPT ![g].at = "incr", ![g].seqBytes = seq]
    /\ UNCHANGED writerVars
    /\ UNCHANGED <<waitVars, authVars, roleVars, muVars, moreVars>>
    /\ UNCHANGED <<orchVars, codecVars, bridgeVars, pcmVars, wsVars>>

\* w.seq++
QIncr(g) ==
    /\ qpc[g].at = "incr"
    /\ seq' = U32Add(seq, 1)
    /\ qpc' = [qpc EXCEPT ![g].at = "write"]
    /\ UNCHANGED <<frames, sentBefore, connBroken, lastCall>>
    /\ UNCHANGED <<waitVars, authVars, roleVars, muVars, moreVars>>
    /\ UNCHANGED <<orchVars, codecVars, bridgeVars, pcmVars, wsVars>>

\* w.conn.WriteMessage(websocket.BinaryMessage, frame) returns; the client
\* loop ends when forwarding audio failed and goes on after a failed stop
QWrite(g) ==
    /\ qpc[g].at = "write"
    /\ \E wrote \in BOOLEAN :
          IF wrote /\ ~connBroken
          THEN /\ frames' = Append(frames,
                              EncodeFrame(qpc[g].messageType, qpc[g].seqBytes,
                                          IF qpc[g].messageType = 2
                                          THEN <<7>> ELSE <<>>,
                                          qpc[g].messageType = 2))
               /\ connBroken' = connBroken
          ELSE /\ frames' = frames
               /\ connBroken' = TRUE
    /\ lastCall' = <<IF qpc[g].messageType = 2 THEN "audio" ELSE "stop", 0>>
    /\ qpc' = [qpc EXCEPT ![g].at =
                  IF g = "loop" /\ (qpc[g].messageType = 4 \/ ~connBroken')
                  THEN "idle" ELSE "done"]
    /\ UNCHANGED <<seq, sentBefore>>
    /\ UNCHANGED <<waitVars, authVars, roleVars, muVars, moreVars>>
    /\ UNCHANGED <<orchVars, codecVars, bridgeVars, pcmVars, wsVars>>

\* the relay goroutine reads a message from the upstream connection
QRelayRead ==
    /\ qpc["relay"].at = "top"
    /\ qpc' = [qpc EXCEPT !["relay"].at = "read"]
    /\ UNCHANGED writerVars
    /\ UNCHANGED <<waitVars, authVars, roleVars, muVars, moreVars>>
    /\ UNCHANGED <<orchVars, codecVars, bridgeVars, pcmVars, wsVars>>

\* as QRelayEvent, but the relay goroutine sends the stop frame when the
\* final transcript arrives
QRelayEvent_StopsSession ==
    /\ qpc["relay"].at = "read"
    /\ \E final \in BOOLEAN :
          qpc' = [qpc EXCEPT !["relay"] =
                     IF final THEN QAt("header", 4, U32Of(0)) ELSE QAt("top", 0, U32Of(0))]
    /\ UNCHANGED writerVars
    /\ UNCHANGED <<waitVars, authVars, roleVars, muVars, moreVars>>
    /\ UNCHANGED <<orchVars, codecVars, bridgeVars, pcmVars, wsVars>>

\* the relay goroutine relays the event it read to the client, and ends
\* with the final one
QRelayEvent ==
    /\ qpc["relay"].at = "read"
    /\ \E final \in BOOLEAN :
          qpc' = [qpc EXCEPT !["relay"].at = IF final THEN "done" ELSE "top"]
    /\ UNCHANGED writerVars
    /\ UNCHANGED <<waitVars, authVars, roleVars, muVars, moreVars>>
    /\ UNCHANGED <<orchVars, codecVars, bridgeVars, pcmVars, wsVars>>

\* the relay goroutine's read fails; in HandleASRWebsocket its deferred
\* closeUpstream closes the connection under the client loop
QRelayClose ==
    /\ qpc["relay"].at = "read"
    /\ qpc' = [qpc EXCEPT !["relay"].at = "done"]
    /\ \E closes \in BOOLEAN : connBroken' = (connBroken \/ closes)
    /\ UNCHANGED <<seq, frames, sentBefore, lastCall>>
    /\ UNCHANGED <<waitVars, authVars, roleVars, muVars, moreVars>>
    /\ UNCHANGED <<orchVars, codecVars, bridgeVars, pcmVars, wsVars>>

\* the session as OpenStream returns it: the config frame is written
InitSeq ==
    /\ seq = U32Of(2)
    /\ frames = <<EncodeFrame(1, FirstSeq, ConfigPayload(DefaultSampleRate, 1, 16), TRUE)>>
    /\ sentBefore = U32Of(0)
    /\ connBroken = FALSE
    /\ lastCall = <<"config", 0>>
    /\ qpc = [g \in SessionGoroutines |->
                 QAt(IF g = "loop" THEN "idle" ELSE "top", 0, U32Of(0))]
    /\ WaitIdle /\ AuthIdle /\ RoleIdle /\ MuIdle /\ MoreIdle
    /\ OrchIdle
    /\ CodecIdle
    /\ BridgeIdle
    /\ PcmIdle
    /\ WsIdle

NextSeq ==
    \/ \E g \in SessionGoroutines : QCall(g) \/ QPutSeq(g) \/ QIncr(g) \/ QWrite(g)
    \/ QRelayRead
    \/ QRelayEvent
    \/ QRelayClose

SpecSeq == InitSeq /\ [][NextSeq]_vars


-----------------------------------------------------------------------------
(* SpecStream: ASRService.StreamRecognize (asr_service.go lines 47-141),   *)
(* the select loop and its reader goroutine, a step at a time              *)

\* Bounds of the model: chunks taken from the audio channel, results handed
\* to onResult
MaxFed == 2
MaxResults == 2

\* cap(errCh)
ErrChCap == 1

srOthers == <<orchVars, writerVars, codecVars, bridgeVars, pcmVars, wsVars,
              waitVars, authVars, roleVars, muVars, seqVars, histVars,
              regVars>>

\* StreamRecognize returns err; the deferred conn.Close() runs
SRReturn(err) ==
    /\ mpc' = "done"
    /\ sRet' = err
    /\ sConn' = FALSE

\* the checks and the dial (lines 53-68), then the reader goroutine starts
\* (lines 70-72)
StreamRecognizeStart ==
    /\ mpc = "start"
    /\ \E outcome \in {"no_endpoint", "no_token", "dial_failed", "dialed"} :
          IF outcome = "dialed" /\ ~sCtx
          THEN /\ mpc' = "select"
               /\ gpc' = "read"
               /\ sConn' = TRUE
               /\ UNCHANGED sRet
          ELSE /\ SRReturn(IF outcome = "dialed" THEN "dial_failed" ELSE outcome)
               /\ UNCHANGED gpc
    /\ UNCHANGED <<errCh, sCtx, sFed, sResults>>
    /\ UNCHANGED srOthers

\* select: case <-ctx.Done() (lines 115-116)
SelectCtxDone ==
    /\ mpc = "select"
    /\ sCtx
    /\ SRReturn("context canceled")
    /\ UNCHANGED <<gpc, errCh, sCtx, sFed, sResults>>
    /\ UNCHANGED srOthers

\* select: case err := <-errCh (lines 117-122)
SelectErrCh ==
    /\ mpc = "select"
    /\ errCh # <<>>
    /\ errCh' = Tail(errCh)
    /\ SRReturn(Head(errCh))
    /\ UNCHANGED <<gpc, sCtx, sFed, sResults>>
    /\ UNCHANGED srOthers

\* select: case chunk, ok := <-audio with ok (lines 123, 132-138)
SelectChunk(chunk) ==
    /\ mpc = "select"
    /\ sFed < MaxFed
    /\ sFed' = sFed + 1
    /\ \E wrote \in BOOLEAN :
          IF Len(chunk) = 0 \/ (sConn /\ wrote)
          THEN UNCHANGED <<mpc, sRet, sConn>>
          ELSE SRReturn("send audio chunk")
    /\ UNCHANGED <<gpc, errCh, sCtx, sResults>>
    /\ UNCHANGED srOthers

\* select: the audio channel is closed (lines 124-130); the error of the
\* close frame's write is only logged
SelectAudioClosed ==
    /\ mpc = "select"
    /\ SRReturn("nil")
    /\ UNCHANGED <<gpc, errCh, sCtx, sFed, sResults>>
    /\ UNCHANGED srOthers

\* what the reader goroutine can read from the connection
ReaderKinds == {"binary", "bad_json", "no_text", "text", "final"}

\* reader goroutine: ReadMessage returns a message (lines 79, 85-109)
ReaderMessage(kind) ==
    /\ gpc = "read"
    /\ sConn
    /\ IF kind \in {"text", "final"}
       THEN /\ Len(sResults) < MaxResults
            /\ sResults' = Append(sResults, kind)
       ELSE UNCHANGED sResults
    /\ UNCHANGED <<mpc, gpc, errCh, sCtx, sConn, sFed, sRet>>
    /\ UNCHANGED srOthers

\* reader goroutine: ReadMessage fails (lines 79-80): the provider closed
\* the connection, or conn.Close() ran
ReaderReadErr ==
    /\ gpc = "read"
    /\ gpc' = "send_err"
    /\ UNCHANGED <<mpc, errCh, sCtx, sConn, sFed, sResults, sRet>>
    /\ UNCHANGED srOthers

\* a send on errCh goes through when the buffer has room; nothing receives
\* from errCh but the select loop, which takes the value in SelectErrCh
ErrChSend(e) ==
    /\ Len(errCh) < ErrChCap
    /\ errCh' = Append(errCh, e)

\* reader goroutine: errCh <- fmt.Errorf("read asr message: ...") (line 81)
ReaderSendErr ==
    /\ gpc = "send_err"
    /\ ErrChSend("read asr message")
    /\ gpc' = "deferred"
    /\ UNCHANGED <<mpc, sCtx, sConn, sFed, sResults, sRet>>
    /\ UNCHANGED srOthers

\* reader goroutine: the deferred errCh <- nil (lines 73-76)
ReaderDeferredSend ==
    /\ gpc = "deferred"
    /\ ErrChSend("nil")
    /\ gpc' = "done"
    /\ UNCHANGED <<mpc, sCtx, sConn, sFed, sResults, sRet>>
    /\ UNCHANGED srOthers

\* the caller cancels ctx
StreamCancel ==
    /\ mpc \in {"start", "select"}
    /\ ~sCtx
    /\ sCtx' = TRUE
    /\ UNCHANGED <<mpc, gpc, errCh, sConn, sFed, sResults, sRet>>
    /\ UNCHANGED srOthers

InitStream ==
    /\ mpc = "start"
    /\ gpc = "none"
    /\ errCh = <<>>
    /\ sCtx = FALSE
    /\ sConn = FALSE
    /\ sFed = 0
    /\ sResults = <<>>
    /\ sRet = "none"
    /\ OrchIdle
    /\ WriterIdle
    /\ CodecIdle
    /\ BridgeIdle
    /\ PcmIdle
    /\ WsIdle
    /\ WaitIdle /\ AuthIdle /\ RoleIdle /\ MuIdle /\ SeqIdle /\ HistIdle
    /\ RegIdle

NextStream ==
    \/ StreamRecognizeStart
    \/ SelectCtxDone
    \/ SelectErrCh
    \/ \E chunk \in Chunks : SelectChunk(chunk)
    \/ SelectAudioClosed
    \/ \E kind \in ReaderKinds : ReaderMessage(kind)
    \/ ReaderReadErr
    \/ ReaderSendErr
    \/ ReaderDeferredSend
    \/ StreamCancel

SpecStream == InitStream /\ [][NextStream]_vars


-----------------------------------------------------------------------------
(* SpecRoleCrud: POST /api/roles, PUT and DELETE /api/roles/:id            *)
(* (handleRoleCreate, handleRoleUpdate, handleRoleDelete, createRole,      *)
(* updateRole, deleteRole, unnamed/part_018) next to the role lookup.      *)
(* Here a store is [nil, ids, names]: `names` maps each id held to the     *)
(* name of its row.                                                        *)

\* role names: "n", "o"
RoleNames == { <<110>>, <<111>> }

\* INSERT / InsertOne / UPDATE / UpdateOne of one row
RowPut(store, id, name) ==
    [nil |-> store.nil, ids |-> store.ids \cup {id},
     names |-> [i \in store.ids \cup {id} |->
                   IF i = id THEN name ELSE store.names[i]]]

\* DELETE / DeleteOne of one row
RowDel(store, id) ==
    [nil |-> store.nil, ids |-> store.ids \ {id},
     names |-> [i \in store.ids \ {id} |-> store.names[i]]]

\* the outcome of a mutation: its error ("" for nil), the role id, and the
\* two stores as the call leaves them
RoleOutcome(err, id, pg, mg) == [err |-> err, id |-> id, pg |-> pg, mg |-> mg]

\* createRole (lines 349-391); `id` is the trimmed input id, or the fresh
\* uuid when that is blank
createRole(id, name, pgFails, mongoFails) ==
    IF postgres.nil
    THEN RoleOutcome("role store not configured", <<>>, postgres, mongo)
    ELSE IF pgFails
    THEN RoleOutcome("postgres", <<>>, postgres, mongo)
    ELSE IF id \in postgres.ids
    THEN RoleOutcome("role already exists", <<>>, postgres, mongo)
    ELSE LET pg == RowPut(postgres, id, name) IN
         IF mongo.nil THEN RoleOutcome("", id, pg, mongo)
         ELSE IF mongoFails THEN RoleOutcome("mongo", <<>>, pg, mongo)
         ELSE IF id \in mongo.ids      \* duplicate key: ignored
         THEN RoleOutcome("", id, pg, mongo)
         ELSE RoleOutcome("", id, pg, RowPut(mongo, id, name))

\* updateRole (lines 393-426)
updateRole(id, name, pgFails, mongoFails) ==
    IF postgres.nil
    THEN RoleOutcome("role store not configured", <<>>, postgres, mongo)
    ELSE IF pgFails
    THEN RoleOutcome("postgres", <<>>, postgres, mongo)
    ELSE IF id \notin postgres.ids
    THEN RoleOutcome("role not found", <<>>, postgres, mongo)
    ELSE LET pg == RowPut(postgres, id, name) IN
         IF mongo.nil THEN RoleOutcome("", id, pg, mongo)
         ELSE IF mongoFails THEN RoleOutcome("mongo", <<>>, pg, mongo)
         ELSE IF id \notin mongo.ids   \* no document matched: no error
         THEN RoleOutcome("", id, pg, mongo)
         ELSE RoleOutcome("", id, pg, RowPut(mongo, id, name))

\* deleteRole (lines 428-449)
deleteRole(id, pgFails, mongoFails) ==
    IF postgres.nil
    THEN RoleOutcome("role store not configured", <<>>, postgres, mongo)
    ELSE IF pgFails
    THEN RoleOutcome("postgres", <<>>, postgres, mongo)
    ELSE IF id \notin postgres.ids
    THEN RoleOutcome("role not found", <<>>, postgres, mongo)
    ELSE LET pg == RowDel(postgres, id) IN
         IF mongo.nil THEN RoleOutcome("", id, pg, mongo)
         ELSE IF mongoFails THEN RoleOutcome("mongo", <<>>, pg, mongo)
         ELSE RoleOutcome("", id, pg, RowDel(mongo, id))

\* the status a mutation handler answers with; `ok` is 201, 200 or 204
MutationStatus(err, ok) ==
    IF err = "" THEN ok
    ELSE IF err = "role already exists" THEN 409
    ELSE IF err = "role not found" THEN 404
    ELSE 500

crudOthers == <<orchVars, writerVars, codecVars, bridgeVars, pcmVars, wsVars,
                waitVars, authVars, muVars, seqVars, moreVars>>

\* a mutation request is [json, roleId, name]
RoleAnswer(req, body, out, ok) ==
    /\ postgres' = out.pg
    /\ mongo' = out.mg
    /\ roleLast' = [req |-> req, body |-> body,
                    role |-> [err |-> out.err, id |-> out.id,
                              asked |-> <<>>, pg |-> "skip"],
                    resp |-> [status |-> MutationStatus(out.err, ok),
                              id |-> out.id]]
    /\ UNCHANGED crudOthers

RoleRejected(req, body) ==
    /\ roleLast' = [req |-> req, body |-> body, role |-> NoLookup,
                    resp |-> [status |-> 400, id |-> <<>>]]
    /\ UNCHANGED <<postgres, mongo>>
    /\ UNCHANGED crudOthers

\* handleRoleCreate (lines 186-217); `uuid` is what uuid.NewString returns
handleRoleCreate(body, uuid) ==
    IF ~body.json \/ body.name = <<>>
    THEN RoleRejected("create", body)
    ELSE \E pgFails \in BOOLEAN, mongoFails \in BOOLEAN :
            RoleAnswer("create", body,
                       createRole(IF body.roleId = <<>> THEN uuid
                                  ELSE body.roleId,
                                  body.name, pgFails, mongoFails), 201)

\* handleRoleUpdate (lines 219-255); body.roleId is the :id of the path
handleRoleUpdate(body) ==
    IF body.roleId = <<>> \/ ~body.json \/ body.name = <<>>
    THEN RoleRejected("update", body)
    ELSE \E pgFails \in BOOLEAN, mongoFails \in BOOLEAN :
            RoleAnswer("update", body,
                       updateRole(body.roleId, body.name, pgFails, mongoFails),
                       200)

\* handleRoleDelete (lines 257-278); only the :id of the path is read
handleRoleDelete(body) ==
    IF body.roleId = <<>>
    THEN RoleRejected("delete", body)
    ELSE \E pgFails \in BOOLEAN, mongoFails \in BOOLEAN :
            RoleAnswer("delete", body,
                       deleteRole(body.roleId, pgFails, mongoFails), 204)

\* handleRoleSelect, as one request among the others
handleRoleLookup(body) ==
    /\ IF ~body.json \/ body.roleId = <<>>
       THEN roleLast' = [req |-> "select", body |-> body, role |-> NoLookup,
                         resp |-> [status |-> 400, id |-> <<>>]]
       ELSE \E pgFails \in BOOLEAN, mongoFails \in BOOLEAN :
               LET role == fetchRole(body.roleId, pgFails, mongoFails) IN
               roleLast' = [req |-> "select", body |-> body, role |-> role,
                            resp |-> RoleResponse(role)]
    /\ UNCHANGED <<postgres, mongo>>
    /\ UNCHANGED crudOthers

\* the bodies of the mutation requests
CrudBodies ==
    { [json |-> FALSE, roleId |-> <<>>, name |-> <<>>] }
    \cup { [json |-> TRUE, roleId |-> id, name |-> name] :
              id \in RoleIDs \cup {<<>>}, name \in RoleNames \cup {<<>>} }

\* both stores start with the same rows; MongoDB may be left unconfigured,
\* and so may Postgres
CrudStores ==
    { [pg |-> [nil |-> pgNil, ids |-> IF pgNil THEN {} ELSE ids,
               names |-> [i \in IF pgNil THEN {} ELSE ids |-> <<110>>]],
       mg |-> [nil |-> mgNil, ids |-> IF mgNil THEN {} ELSE ids,
               names |-> [i \in IF mgNil THEN {} ELSE ids |-> <<110>>]]] :
         pgNil \in BOOLEAN, mgNil \in BOOLEAN,
         ids \in SUBSET { <<49>>, <<50>> } }

InitRoleCrud ==
    /\ \E st \in CrudStores : postgres = st.pg /\ mongo = st.mg
    /\ roleLast = [req |-> "none", body |-> [json |-> FALSE, roleId |-> <<>>],
                   role |-> NoLookup,
                   resp |-> [status |-> 0, id |-> <<>>]]
    /\ WaitIdle /\ AuthIdle /\ MuIdle /\ SeqIdle /\ MoreIdle
    /\ OrchIdle
    /\ WriterIdle
    /\ CodecIdle
    /\ BridgeIdle
    /\ PcmIdle
    /\ WsIdle

NextRoleCrud ==
    \/ \E body \in CrudBodies :
          \E uuid \in IF body.roleId # <<>> THEN {<<>>}
                       ELSE RoleIDs \ (postgres.ids \cup mongo.ids) :
             handleRoleCreate(body, uuid)
    \/ \E body \in CrudBodies : handleRoleUpdate(body)
    \/ \E body \in CrudBodies : handleRoleDelete(body)
    \/ \E body \in RoleBodies : handleRoleLookup(body)

SpecRoleCrud == InitRoleCrud /\ [][NextRoleCrud]_vars


-----------------------------------------------------------------------------
(* SpecReg: Register and Login of auth.Service called from several         *)
(* goroutines, a step at a time (config/config.go lines 199-292).  s.mu is *)
(* a sync.RWMutex: Lock waits until nobody writes or reads, RLock until    *)
(* nobody writes.  The store starts empty.  generateToken signs with       *)
(* HS256 and a non-empty secret and returns no error.                      *)

\* Bound of the model: the goroutines calling the service
MaxCalls == 3

RegGoroutines == 1 .. MaxCalls

regOthers == <<orchVars, writerVars, codecVars, bridgeVars, pcmVars, wsVars,
               waitVars, roleVars, muVars, seqVars, histVars, srVars>>

\* goroutine g moves to `at`
RgoAt(g, at) == rgo' = [rgo EXCEPT ![g].at = at]

\* goroutine g returns err and the user
RgoReturn(g, err, user) ==
    rgo' = [rgo EXCEPT ![g].at = "done", ![g].err = err, ![g].user = user]

MuFree == authMu.writer = 0 /\ authMu.readers = {}

\* Register, lines 202-226: validation, the hash, the user built
RegStart(g) ==
    /\ rgo[g].op = "register" /\ rgo[g].at = "start"
    /\ LET req == rgo[g].req IN
       IF TrimSpace(req.username) = <<>>
       THEN RgoReturn(g, "ErrUsernameRequired", 0)
       ELSE IF Len(TrimSpace(req.password)) < 6
       THEN RgoReturn(g, "ErrPasswordTooWeak", 0)
       ELSE RgoAt(g, "lock")
    /\ UNCHANGED <<authMu, authVars, regOthers>>

\* as RegLock, but the goroutine does not wait for the mutex
RegLock_NoWait(g) ==
    /\ rgo[g].op = "register" /\ rgo[g].at = "lock"
    /\ authMu' = [authMu EXCEPT !.writer = g]
    /\ RgoAt(g, "check")
    /\ UNCHANGED <<authVars, regOthers>>

\* Register, line 228: s.mu.Lock()
RegLock(g) ==
    /\ rgo[g].op = "register" /\ rgo[g].at = "lock"
    /\ MuFree
    /\ authMu' = [authMu EXCEPT !.writer = g]
    /\ RgoAt(g, "check")
    /\ UNCHANGED <<authVars, regOthers>>

\* Register, lines 231-239: the two lookups; a failed one returns through
\* the deferred Unlock
RegCheck(g) ==
    /\ rgo[g].op = "register" /\ rgo[g].at = "check"
    /\ LET err == RegisterError(rgo[g].req) IN
       IF err # ""
       THEN /\ RgoReturn(g, err, 0)
            /\ authMu' = [authMu EXCEPT !.writer = 0]
       ELSE /\ RgoAt(g, "insert_name")
            /\ UNCHANGED authMu
    /\ UNCHANGED <<authVars, regOthers>>

\* Register, line 241: s.usersByName[usernameKey] = user
RegInsertName(g) ==
    /\ rgo[g].op = "register" /\ rgo[g].at = "insert_name"
    /\ LET req == rgo[g].req
           id  == Len(users) + 1
       IN  /\ users' = Append(users,
                          [username |-> TrimSpace(req.username),
                           email |-> TrimSpace(req.email),
                           passwordHash |-> bcryptHash(req.password),
                           updatedAt |-> 0])
           /\ usersByName' =
                 MapSet(usersByName, ToLower(TrimSpace(req.username)), id)
           /\ rgo' = [rgo EXCEPT ![g].at = "insert_email", ![g].user = id]
    /\ UNCHANGED <<usersByEmail, authLast, authMu, regOthers>>

\* Register, lines 242-244: s.usersByEmail[emailKey] = user
RegInsertEmail(g) ==
    /\ rgo[g].op = "register" /\ rgo[g].at = "insert_email"
    /\ LET emailKey == normalizeEmail(rgo[g].req.email) IN
       usersByEmail' = IF emailKey # <<>>
                       THEN MapSet(usersByEmail, emailKey, rgo[g].user)
                       ELSE usersByEmail
    /\ RgoAt(g, "return")
    /\ UNCHANGED <<usersByName, users, authLast, authMu, regOthers>>

\* Register, lines 246-255: the token, the result, the deferred Unlock
RegReturn(g) ==
    /\ rgo[g].op = "register" /\ rgo[g].at = "return"
    /\ RgoReturn(g, "", rgo[g].user)
    /\ authMu' = [authMu EXCEPT !.writer = 0]
    /\ UNCHANGED <<authVars, regOthers>>

\* Login, lines 261-264
LoginStart(g) ==
    /\ rgo[g].op = "login" /\ rgo[g].at = "start"
    /\ IF \/ TrimSpace(rgo[g].req.identifier) = <<>>
          \/ TrimSpace(rgo[g].req.password) = <<>>
       THEN RgoReturn(g, "ErrInvalidCredentials", 0)
       ELSE RgoAt(g, "rlock")
    /\ UNCHANGED <<authMu, authVars, regOthers>>

\* Login, line 266: s.mu.RLock()
LoginRLock(g) ==
    /\ rgo[g].op = "login" /\ rgo[g].at = "rlock"
    /\ authMu.writer = 0
    /\ authMu' = [authMu EXCEPT !.readers = @ \cup {g}]
    /\ RgoAt(g, "lookup")
    /\ UNCHANGED <<authVars, regOthers>>

\* Login, lines 267-268: lookupUserLocked and RUnlock
LoginLookup(g) ==
    /\ rgo[g].op = "login" /\ rgo[g].at = "lookup"
    /\ rgo' = [rgo EXCEPT ![g].at = "compare",
                  ![g].user = lookupUserLocked(TrimSpace(rgo[g].req.identifier))]
    /\ authMu' = [authMu EXCEPT !.readers = @ \ {g}]
    /\ UNCHANGED <<authVars, regOthers>>

\* Login, lines 270-276: nil user, CompareHashAndPassword
LoginCompare(g) ==
    /\ rgo[g].op = "login" /\ rgo[g].at = "compare"
    /\ IF rgo[g].user = 0
       THEN RgoReturn(g, "ErrInvalidCredentials", 0)
       ELSE IF ~bcryptMatches(users[rgo[g].user].passwordHash,
                              rgo[g].req.password)
       THEN RgoReturn(g, "ErrInvalidCredentials", 0)
       ELSE RgoAt(g, "touch_lock")
    /\ UNCHANGED <<authMu, authVars, regOthers>>

\* Login, line 278: s.mu.Lock()
LoginLock(g) ==
    /\ rgo[g].op = "login" /\ rgo[g].at = "touch_lock"
    /\ MuFree
    /\ authMu' = [authMu EXCEPT !.writer = g]
    /\ RgoAt(g, "touch")
    /\ UNCHANGED <<authVars, regOthers>>

\* Login, lines 279-291: UpdatedAt, Unlock, the token, the result
LoginTouch(g) ==
    /\ rgo[g].op = "login" /\ rgo[g].at = "touch"
    /\ users' = [users EXCEPT ![rgo[g].user].updatedAt = @ + 1]
    /\ authMu' = [authMu EXCEPT !.writer = 0]
    /\ RgoReturn(g, "", rgo[g].user)
    /\ UNCHANGED <<usersByName, usersByEmail, authLast, regOthers>>

\* the calls: usernames "a", "A", "b" and a blank; no email, "x@", "X@";
\* a password and a short one
RegCalls ==
    { [op |-> "register", at |-> "start", err |-> "", user |-> 0,
       req |-> [username |-> u, email |-> e, password |-> Password1]] :
         u \in { <<97>>, <<65>>, <<98>> }, e \in { <<>>, <<120, 64>>, <<88, 64>> } }
    \cup { [op |-> "register", at |-> "start", err |-> "", user |-> 0,
            req |-> [username |-> <<97>>, email |-> <<>>, password |-> <<49>>]],
           [op |-> "register", at |-> "start", err |-> "", user |-> 0,
            req |-> [username |-> <<32>>, email |-> <<>>,
                     password |-> Password1]] }

LoginCalls ==
    { [op |-> "login", at |-> "start", err |-> "", user |-> 0,
       req |-> [identifier |-> i, password |-> p]] :
         i \in { <<97>>, <<120, 64>> }, p \in { Password1, Password2 } }

InitReg ==
    /\ rgo \in [RegGoroutines -> RegCalls \cup LoginCalls]
    /\ authMu = [writer |-> 0, readers |-> {}]
    /\ AuthIdle
    /\ WaitIdle /\ RoleIdle /\ MuIdle /\ SeqIdle /\ HistIdle /\ SrIdle
    /\ OrchIdle
    /\ WriterIdle
    /\ CodecIdle
    /\ BridgeIdle
    /\ PcmIdle
    /\ WsIdle

NextReg ==
    \E g \in RegGoroutines :
       \/ RegStart(g)
       \/ RegLock(g)
       \/ RegCheck(g)
       \/ RegInsertName(g)
       \/ RegInsertEmail(g)
       \/ RegReturn(g)
       \/ LoginStart(g)
       \/ LoginRLock(g)
       \/ LoginLookup(g)
       \/ LoginCompare(g)
       \/ LoginLock(g)
       \/ LoginTouch(g)

SpecReg == InitReg /\ [][NextReg]_vars

-----------------------------------------------------------------------------
(* Claims                                                                  *)

\* C5: the n-th frame written on a session carries sequence number n
\* modulo 2^32, whatever the frame types, starting at 1; a SendAudio with an
\* empty chunk writes no frame and consumes no sequence number.
C5_SequenceNumbers ==
    /\ [](\A i \in 1..Len(frames) : FrameSeq(frames[i]) = U32Add(sentBefore, i))
    /\ [][lastCall' = <<"audio", 0>> => (seq' = seq /\ frames' = frames)]_vars

\* C5 witness: a session at the wrap whose three logged frames are of all
\* three types, the last one numbered 0, followed by an empty SendAudio
C5_Witness ==
    /\ sentBefore = NearWrap
    /\ Len(frames) = 3
    /\ FrameSeq(frames[3]) = U32Of(0)
    /\ { FrameType(frames[i]) : i \in 1..3 } = {1, 2, 4}
    /\ lastCall = <<"audio", 0>>

ValidationErrors ==
    { <<"wav payload too short">>, <<"unsupported inline audio format">> }

\* the errors the drain loop returns for an elapsed deadline
TimeoutErrors ==
    { <<"asr websocket timed out waiting for response">>,
      <<"asr websocket timed out waiting for response after">> }

\* the streaming attempt has failed and the REST call has returned
FellBack == pc = "done" /\ wsOut.done /\ wsOut.err # <<>> /\ restOut.done

\* C1: inline audio, the streaming attempt fails (for whatever reason) and
\* the REST call succeeds: Recognize returns the REST result with a nil
\* error, exactly one REST call (with the inline data) was made, and the
\* streaming error is not returned.
C1_FallbackResult ==
    (FellBack /\ restOut.err = <<>>)
        => /\ result = Returned(restOut.res, <<>>)
           /\ Len(restCalls) = 1
           /\ restCalls[1].inline
           /\ restCalls[1].url = <<>>

\* C1 witness: the dial failed and the REST result was returned
C1_Witness ==
    /\ pc = "done"
    /\ dials = 1
    /\ wsOut.err = <<"dial asr websocket">>
    /\ restOut.done
    /\ result = Returned(ASRResult(<<57>>, <<114>>, 7), <<>>)

\* C2 as stated: a validation error of extractPCMBuffer is returned as it
\* is and no REST call is made.
C2_NoFallbackOnValidation ==
    (pc = "done" /\ wsOut.done /\ wsOut.err \in ValidationErrors)
        => (result.err = wsOut.err /\ restCalls = <<>>)

\* C2 amended: a validation error fails the streaming attempt before any
\* dial, and Recognize then makes exactly one REST call with the inline
\* data, as for any other streaming failure: it returns the REST result, or
\* the validation error joined with the REST error.
C2_ValidationFallsBack ==
    (pc = "done" /\ wsOut.done /\ wsOut.err \in ValidationErrors)
        => /\ dials = 0
           /\ frames = <<>>
           /\ Len(restCalls) = 1
           /\ restCalls[1].inline
           /\ restOut.done
           /\ result = IF restOut.err = <<>> THEN restOut
                       ELSE Returned(NoResult, wsOut.err \o restOut.err)

\* C2 witness: an unsupported format, answered by the REST call
C2_Witness ==
    /\ pc = "done"
    /\ wsOut.err = <<"unsupported inline audio format">>
    /\ Len(restCalls) = 1
    /\ result = Returned(ASRResult(<<57>>, <<114>>, 7), <<>>)

\* C3 as stated: when the deadline has elapsed with text accumulated, the
\* streaming attempt ends as a success carrying that text (unless the
\* upstream reported an error or the context was canceled); it ends with a
\* timeout error only when no text was accumulated.
C3_SoftTimeout ==
    /\ (wsOut.done /\ wsOut.err \in TimeoutErrors) => finalText = <<>>
    /\ (/\ wsOut.done
        /\ expired
        /\ TrimSpace(finalText) # <<>>
        /\ wsOut.err \notin { <<"qiniu asr error">>, <<"context canceled">> })
          => (wsOut.err = <<>> /\ wsOut.res.text = TrimSpace(finalText))

\* the step reads a binary message that parseASRWSBinaryMessage rejects
UndecodableRead ==
    /\ pc = "read"
    /\ pc' # "read"
    /\ lastRead'.kind = "msg"
    /\ lastRead'.msg.mt = "binary"
    /\ parseASRWSBinaryMessage(lastRead'.msg.payload).err # ""

\* the step reads a message that decodes to an envelope without an error
DecodedRead ==
    /\ pc = "read"
    /\ pc' # "read"
    /\ lastRead'.kind = "msg"
    /\ DecodeMessage(lastRead'.msg).ok
    /\ ~IsErrorEnv(DecodeMessage(lastRead'.msg).env)

\* C7: an undecodable binary message does not end the attempt and leaves
\* text, duration and reqid as they are (NextEvent returns the empty event
\* for it); the loop goes on to read unless the context is canceled or the
\* deadline has passed, and a later decodable message is processed as usual.
C7_UndecodableSkipped ==
    /\ [][UndecodableRead =>
            /\ pc' = "loop_top"
            /\ finalText' = finalText
            /\ durationMS' = durationMS
            /\ reqID' = reqID
            /\ wsOut' = wsOut
            /\ NextEvent(lastRead'.msg) = EmptyEvent]_vars
    /\ [][(pc = "loop_top" /\ skipped /\ ~ctxDone /\ ~expired)
            => (pc' \in {"loop_top", "read"} /\ wsOut' = wsOut)]_vars
    /\ [][(DecodedRead /\ skipped) =>
            /\ finalText' = NextText(DecodeMessage(lastRead'.msg).env)
            /\ reqID' = NextReqID(DecodeMessage(lastRead'.msg).env)
            /\ durationMS' = NextDuration(DecodeMessage(lastRead'.msg).env)]_vars

\* C7 witness: after a skipped message the final event was read and the
\* attempt succeeded with its text
C7_Witness ==
    /\ skipped
    /\ lastRead = [kind |-> "msg", msg |-> BinaryMsg(ServerFrame(2))]
    /\ wsOut = Returned(ASRResult(<<50>>, <<98>>, 2), <<>>)

\* C8 as stated: with a non-blank URL there is no dial, exactly one REST
\* call carrying the URL, and its result or error is returned as it is.
C8_UrlDirect ==
    (pc = "done" /\ TrimSpace(input.url) # <<>>)
        => /\ dials = 0
           /\ frames = <<>>
           /\ restCalls = << [format |-> Format, url |-> TrimSpace(input.url),
                              inline |-> FALSE] >>
           /\ restOut.done
           /\ result = restOut

\* C8 amended: the same, for calls with a non-blank token (a blank token is
\* rejected before any REST call).
C8_UrlDirectWithToken ==
    (pc = "done" /\ TrimSpace(input.url) # <<>> /\ TrimSpace(input.token) # <<>>)
        => /\ dials = 0
           /\ frames = <<>>
           /\ restCalls = << [format |-> Format, url |-> TrimSpace(input.url),
                              inline |-> FALSE] >>
           /\ restOut.done
           /\ result = restOut

\* C8 witness: URL and inline data together, the REST call failed and its
\* error was returned without a second attempt
C8_Witness ==
    /\ pc = "done"
    /\ input.url = <<117>>
    /\ Len(input.data) > 44
    /\ restCalls = << [format |-> StrWav, url |-> <<117>>, inline |-> FALSE] >>
    /\ result = Returned(NoResult, <<"call asr api">>)

\* C9: streaming attempt and REST fallback both fail: no result, and an
\* error made of the streaming error and the fallback error.
C9_BothFail ==
    (FellBack /\ restOut.err # <<>>)
        => /\ result.res = NoResult
           /\ result.err = wsOut.err \o restOut.err
           /\ Len(result.err) = 2

\* C9 witness: no transcription on the stream, then the REST call failed
C9_Witness ==
    /\ pc = "done"
    /\ result = Returned(NoResult, <<"asr websocket produced no transcription",
                                     "call asr api">>)

\* the last message read was a final event and text is available
FinalArrived ==
    /\ lastRead.kind = "msg"
    /\ DecodeMessage(lastRead.msg).ok
    /\ ~IsErrorEnv(DecodeMessage(lastRead.msg).env)
    /\ DecodeMessage(lastRead.msg).env.fin
    /\ TrimSpace(finalText) # <<>>

\* C10 as stated: after a final event with text available, Recognize
\* returns success with the latest text, the latest reported duration and
\* the latest reqid, and makes no REST call.
C10_FinalEvent ==
    (pc = "done" /\ wsOut.done /\ FinalArrived)
        => /\ result.err = <<>>
           /\ result.res.text = TrimSpace(finalText)
           /\ result.res.reqid = reqID
           /\ (lastDur # 0 => result.res.dur = lastDur)
           /\ restCalls = <<>>

\* `ready` was written to the client
ReadySent == \E i \in 1..Len(clientOut) : clientOut[i].type = "ready"

\* C4 as stated: a session that reached `ready` and whose client is still
\* there has been sent a `final` or an `error` message by the time the
\* handler has returned and closed the connection.
C4_FinalOrError ==
    (hpc = "done" /\ ReadySent /\ clientOK)
        => \E i \in 1..Len(clientOut) : clientOut[i].type \in {"final", "error"}

\* C12 as stated: a binary message that arrives before `ready` is answered
\* with an `error` message, nothing is sent upstream, and the connection
\* stays up, still waiting for `start`.
C12_AudioBeforeReady ==
    lastClient = "binary" =>
        /\ frames = <<>>
        /\ clientOK => clientOut = <<ClientMsg("error", <<>>)>>
        /\ hpc = "start"

\* the relay goroutine ended on an error of the upstream read or on an
\* error envelope, while the handler is still in its client loop
UpstreamFailed ==
    /\ rpc = "done"
    /\ hpc = "loop"
    /\ results.buf # <<>>
    /\ Head(results.buf) \notin {"nil", "context canceled", "write error"}

\* C13 as stated: once the upstream has failed, the handler goes on, without
\* another client message, to close the upstream session and return (its
\* return closes the client socket).
C13_TeardownAfterUpstreamFailure ==
    UpstreamFailed ~> (hpc = "done" /\ ~upOpen)

\* C15 as stated: once ctx is canceled the upstream connection is closed.
C15_CancelClosesUpstream == hctxDone ~> ~upOpen

\* C18 as stated, for the bridge: when the relay's result is the clean close
\* of the upstream, the handler writes nothing more to the client.
C18_CleanCloseNotReported ==
    [][(HWaitResult /\ Head(results.buf) = "close 1000")
          => clientOut' = clientOut]_vars

\* C20 as stated: a step that reads a client `ping` appends one `pong` to the
\* client's messages (when the write succeeds), sends nothing upstream and
\* leaves the handler where it was, neither opening nor stopping a session.
C20_PingPong ==
    [][((HStart \/ HClientMsg) /\ lastClient' = "ping")
          => /\ clientOK' => clientOut' = Append(clientOut, ClientMsg("pong", <<>>))
             /\ UNCHANGED <<frames, seq, upOpen, stopSent, hpc>>]_vars

\* the formats C16 calls WAV-declared: empty, "wav", or ending in "/wav"
WavDeclared(format) ==
    format = <<>> \/ format = StrWav \/ HasSuffix(format, StrSWav)

\* C16: for a WAV-declared input extractPCMBuffer succeeds exactly when the
\* buffer has at least 45 bytes and otherwise fails as too short; on
\* success the PCM is data[44:] and channels, sample rate and bits are the
\* values at offsets 22, 24 and 34, a zero replaced by 1, the configured
\* rate and 16.
C16_WavExtract ==
    (ppc = "done" /\ WavDeclared(pFormat)) =>
        IF Len(pData) >= 45
        THEN /\ pOut.err = ""
             /\ Len(pOut.pcm) = Len(pData) - 44
             /\ \A i \in 1..Len(pOut.pcm) : pOut.pcm[i] = pData[44 + i]
             /\ pOut.channels =
                  IF LE16(pData, 22) = 0 THEN 1 ELSE LE16(pData, 22)
             /\ pOut.sampleRate =
                  IF LE32(pData, 24) = 0 THEN DefaultSampleRate
                  ELSE LE32(pData, 24)
             /\ pOut.bits =
                  IF LE16(pData, 34) = 0 THEN 16 ELSE LE16(pData, 34)
        ELSE pOut.err = "wav payload too short"

\* a format ending in "/wav" and a header of zeros were extracted
C16_Witness ==
    /\ ppc = "done"
    /\ pFormat = <<120>> \o StrSWav
    /\ pData = WavHeader(0, 0, 0) \o <<1, 2>>
    /\ pOut.err = ""
    /\ pOut.pcm = <<1, 2>>
    /\ pOut.channels = 1

\* the message decodes to an envelope that has none of the keys the gateway
\* reads, only other ones
UnknownKeysOnly(m) ==
    /\ DecodeMessage(m).ok
    /\ DecodeMessage(m).env = [EmptyEnv EXCEPT !.other = TRUE]

\* C17 as stated: an upstream envelope with none of the recognized keys
\* contributes no transcript text: whatever the relay writes to the client
\* for it carries the empty text.
C17_NoTextFromUnknownKeys ==
    [][\A m \in BridgeMsgs :
          (RelayEvent(m) /\ UnknownKeysOnly(m) /\ Len(clientOut') > Len(clientOut))
              => clientOut'[Len(clientOut')].text = <<>>]_vars

\* C11 as stated: on each upstream session at most one stop frame (type 4)
\* is sent, and no audio frame (type 2) follows the stop frame.
C11_StopOnce ==
    \A n \in 1..Len(wSess) :
        LET f == wSess[n].frames IN
        /\ Cardinality({i \in 1..Len(f) : f[i] = 4}) <= 1
        /\ \A i, j \in 1..Len(f) : (i < j /\ f[i] = 4) => f[j] # 2

\* every goroutine of HandleASRWebsocket has ended
WsQuiet ==
    /\ wpc.at = "done"
    /\ wWatch = "done"
    /\ \A n \in 1..Len(wSess) : wSess[n].rd = "done"

\* the n-th session is held as `current` by a closeUpstream that is about
\* to close it
HeldForClose(n) ==
    \/ wpc.at = "cu2" /\ wCur.main = n
    \/ wWatch = "cu2" /\ wCur.watch = n
    \/ \E k \in 1..Len(wSess) : wSess[k].rd = "cu2" /\ wSess[k].cur = n

C19_RelayTagged ==
    [][\A n \in 1..MaxSessions, m \in WsMsgs :
          (/\ ReaderMsg(n, m)
           /\ m.mt = "binary"
           /\ ParseASRWSMessage(m.payload).err = ""
           /\ Len(wOut') > Len(wOut))
          => wOut'[Len(wOut')].type =
               IF ExtractTranscript(ParseASRWSMessage(m.payload).env).fin
               THEN "final" ELSE "partial"]_vars


\* OpenStream returned an error: the first message passed the checks and
\* the handler returned without starting the relay goroutine
OpenFailed ==
    /\ hpc = "done"
    /\ lastClient \in {"ok", "ping"}
    /\ rpc = "idle"

\* C24: `ready` is written to the client only when the upstream session is
\* open and its config frame was written; the config frame is the first
\* frame of the session, carries the first sequence number and is the only
\* config frame; when opening the session or sending the config fails, the
\* upstream socket is closed, no session runs, `ready` is never written and
\* the one message written to a client that takes writes is `error`.
C24_ReadyAfterConfig ==
    /\ Cardinality({i \in 1..Len(frames) : FrameType(frames[i]) = 1}) <= 1
    /\ frames # <<>> => FrameType(frames[1]) = 1 /\ FrameSeq(frames[1]) = FirstSeq
    /\ ReadySent => /\ frames # <<>>
                    /\ rpc # "idle"
                    /\ clientOut[1].type = "ready"
    /\ rpc # "idle" => frames # <<>>
    /\ OpenFailed => /\ ~upOpen
                     /\ ~ReadySent
                     /\ Len(frames) <= 0
                     /\ clientOK => clientOut = <<ClientMsg("error", <<>>)>>

\* a session was acknowledged and an audio frame followed its config frame
C24_Witness ==
    /\ ReadySent
    /\ Len(frames) >= 2
    /\ FrameType(frames[2]) = 2

\* C25: the read deadline is min(5 min, max(90 s, 1.5 x audio duration +
\* 30 s)); for every PCM length and audio format it lies between 90 s and
\* 5 min, it is 90 s when the duration is unknown (zero), and a longer PCM
\* of the same format never gets a shorter deadline.
C25_AdaptiveDeadline ==
    dpc = "done" =>
        LET d   == AudioDuration(dIn.len, dIn.sampleRate, dIn.bits, dIn.channels)
            raw == (d * 3) \div 2 + 30 * Second
            cap == IF raw > 90 * Second THEN raw ELSE 90 * Second
        IN  /\ dOut = IF cap < 300 * Second THEN cap ELSE 300 * Second
            /\ dOut >= 90 * Second
            /\ dOut <= 300 * Second
            /\ d = 0 => dOut = 90 * Second
            /\ \A len \in WaitLens :
                  len >= dIn.len =>
                     MaxWait(len, dIn.sampleRate, dIn.bits, dIn.channels) >= dOut

\* a deadline strictly between the base and the cap was computed, and there
\* is a longer PCM that reaches the cap
C25_Witness ==
    /\ dpc = "done"
    /\ dOut > 90 * Second
    /\ dOut < 300 * Second
    /\ \E len \in WaitLens :
          /\ len > dIn.len
          /\ MaxWait(len, dIn.sampleRate, dIn.bits, dIn.channels) = 300 * Second

\* the chunk an audio frame carries
IsAudioFrame(frame) == FrameType(frame) = 2
FrameChunk(frame) == gzipDecompress(Drop(frame, 12)).data

\* the chunks of the audio frames written so far, in send order
AudioChunks ==
    LET audio == SelectSeq(frames, IsAudioFrame)
    IN  [i \in 1..Len(audio) |-> FrameChunk(audio[i])]

RECURSIVE Flatten(_)
Flatten(chunks) ==
    IF chunks = <<>> THEN <<>> ELSE Head(chunks) \o Flatten(Tail(chunks))

\* C26: the PCM of an inline call goes out as consecutive audio frames of
\* FrameSize bytes: at any time the chunks sent so far concatenate to a
\* prefix of the PCM, every one but the last holds exactly FrameSize bytes
\* and the last between 1 and FrameSize; once SendStop was called the
\* chunks concatenate to the whole PCM, and no audio frame follows a stop
\* frame.
C26_FramesCoverPcm ==
    (pc # "idle" /\ Pcm.err = "") =>
        LET chunks == AudioChunks
            n      == Len(chunks)
            sentLen == Len(Flatten(chunks))
        IN  /\ sentLen <= Len(Pcm.pcm)
            /\ Flatten(chunks) = SubSeq(Pcm.pcm, 1, sentLen)
            /\ \A i \in 1..n :
                  /\ Len(chunks[i]) >= 1
                  /\ Len(chunks[i]) <= FrameSize
                  /\ i < n => Len(chunks[i]) = FrameSize
            /\ (n > 0 /\ sentLen < Len(Pcm.pcm)) => Len(chunks[n]) = FrameSize
            /\ lastCall[1] = "stop" => Flatten(chunks) = Pcm.pcm
            /\ \A i, j \in 1..Len(frames) :
                  (i < j /\ FrameType(frames[i]) = 4) => FrameType(frames[j]) # 2

\* a PCM of three bytes went out in frames of two bytes and one byte, and
\* the stop frame was written after them
C26_Witness ==
    /\ FrameSize = 2
    /\ AudioChunks = <<<<1, 2>>, <<3>>>>
    /\ lastCall[1] = "stop"
    /\ FrameType(frames[Len(frames)]) = 4

\* C27: a non-empty binary message read by the client loop, when the
\* upstream connection takes the write, appends exactly one frame, an audio
\* frame carrying the message's bytes and the next sequence number, so the
\* frames keep the order of the messages; an empty binary message appends no
\* frame, consumes no sequence number, writes nothing to the client and
\* leaves the handler in its loop.
C27_AudioForwarded ==
    [][\A chunk \in BridgeChunks :
          HAudio(chunk) =>
             IF Len(chunk) = 0
             THEN /\ frames' = frames
                  /\ seq' = seq
                  /\ clientOut' = clientOut
                  /\ hpc' = "loop"
             ELSE \/ /\ Len(frames') = Len(frames) + 1
                     /\ SubSeq(frames', 1, Len(frames)) = frames
                     /\ IsAudioFrame(frames'[Len(frames')])
                     /\ FrameChunk(frames'[Len(frames')]) = chunk
                     /\ FrameSeq(frames'[Len(frames')]) = seq
                     /\ hpc' = "loop"
                  \/ /\ frames' = frames
                     /\ connBroken'
                     /\ hpc' = "done"]_vars

\* two different binary messages were forwarded in the order received, with
\* an empty one read last
C27_Witness ==
    /\ hpc = "loop"
    /\ Len(frames) = 3
    /\ FrameChunk(frames[2]) = <<8, 9>>
    /\ FrameChunk(frames[3]) = <<7>>
    /\ lastClient = "audio_empty"

\* C30: one Recognize call dials the upstream websocket at most once and
\* calls the REST endpoint at most once; the REST call is made with no dial
\* for a URL input and after the one dial's attempt failed for inline data,
\* and never when the streaming attempt returned a result.
C30_OneDialOneRest ==
    /\ dials <= 1
    /\ Len(restCalls) <= 1
    /\ (wsOut.done /\ wsOut.err = <<>>) => restCalls = <<>>
    /\ (restCalls # <<>> /\ restCalls[1].inline) => (wsOut.done /\ wsOut.err # <<>>)
    /\ (restCalls # <<>> /\ ~restCalls[1].inline) => dials = 0

\* the streaming attempt failed after its dial, and the call ended with the
\* one REST call of the fallback
C30_Witness ==
    /\ pc = "done"
    /\ dials = 1
    /\ Len(restCalls) = 1
    /\ restCalls[1].inline
    /\ restOut.done

\* the password a user registered with
PasswordOf(user) == Tail(users[user].passwordHash)

\* the username of a Register call is taken, whatever its case
NameTaken(req) == ToLower(TrimSpace(req.username)) \in DOMAIN usersByName

\* the email of a Register call is registered
EmailTaken(req) ==
    /\ normalizeEmail(req.email) # <<>>
    /\ normalizeEmail(req.email) \in DOMAIN usersByEmail

\* a Register call returned an error and left the maps and the users alone
RejectedWith(err) ==
    /\ authLast'.op = "register"
    /\ authLast'.err = err
    /\ UNCHANGED <<usersByName, usersByEmail, users>>

\* C21 as stated: Register with a taken username fails with ErrUserExists,
\* and with a registered email (the username being free) with
\* ErrEmailExists, the store unchanged.
C21_DuplicateRejected ==
    [][\A req \in RegisterInputs :
          Register(req) =>
             /\ NameTaken(req) => RejectedWith("ErrUserExists")
             /\ (EmailTaken(req) /\ ~NameTaken(req))
                   => RejectedWith("ErrEmailExists")]_vars

\* C21 amended: the above holds for a call that passes the validation (a
\* non-blank username and a password of six characters or more once
\* trimmed); a call that does not is rejected with ErrUsernameRequired or
\* ErrPasswordTooWeak before the store is looked at.  In every case the
\* store is unchanged and the holder of the username or email still logs in
\* with the username and password registered.
C21_DuplicateRejectedValid ==
    [][\A req \in RegisterInputs :
          (Register(req) /\ (NameTaken(req) \/ EmailTaken(req))) =>
             LET valid == /\ TrimSpace(req.username) # <<>>
                          /\ Len(TrimSpace(req.password)) >= 6
                 holder == IF NameTaken(req)
                           THEN usersByName[ToLower(TrimSpace(req.username))]
                           ELSE usersByEmail[normalizeEmail(req.email)]
             IN  /\ RejectedWith(
                      IF TrimSpace(req.username) = <<>> THEN "ErrUsernameRequired"
                      ELSE IF ~valid THEN "ErrPasswordTooWeak"
                      ELSE IF NameTaken(req) THEN "ErrUserExists"
                      ELSE "ErrEmailExists")
                 /\ LoginOutcome([identifier |-> users[holder].username,
                                  password |-> PasswordOf(holder)])
                       = [err |-> "", user |-> holder]]_vars

\* a Register call was rejected because the email was registered, with one
\* user in the store
C21_Witness ==
    /\ authLast.op = "register"
    /\ authLast.err = "ErrEmailExists"
    /\ Len(users) = 1
    /\ DOMAIN usersByEmail # {}

\* C22 as stated, its first half: in every state of the store each
\* registered user logs in with the username and, when one was given, with
\* the email, and the password registered, and Login returns that user.
C22_LoginAfterRegister ==
    \A user \in 1..Len(users) :
        /\ LoginOutcome([identifier |-> users[user].username,
                         password |-> PasswordOf(user)])
              = [err |-> "", user |-> user]
        /\ users[user].email # <<>> =>
              LoginOutcome([identifier |-> users[user].email,
                            password |-> PasswordOf(user)])
                 = [err |-> "", user |-> user]

\* the store holds the role id
Holds(store, roleID) == ~store.nil /\ roleID \in store.ids

\* C23: a select whose lookup finds the role answers 200 with the role's
\* id, which is the id asked for, and 404 when the lookup reports
\* role-not-found; fetchRole asks Postgres first when it is configured,
\* asks MongoDB only when Postgres is not configured or answered that it
\* has no such row, never asks MongoDB when Postgres has the row, and
\* reports role-not-found only when neither store holds the id.
C23_RoleSelect ==
    (roleLast.req = "select" /\ roleLast.body.json /\ roleLast.body.roleId # <<>>) =>
        LET role == roleLast.role
            resp == roleLast.resp
            id   == roleLast.body.roleId
        IN  /\ role.err = "" => resp = [status |-> 200, id |-> id]
            /\ role.err = "role not found" => resp.status = 404
            /\ resp.status = 200 =>
                  (Holds(postgres, id) \/ Holds(mongo, id))
            /\ ~postgres.nil => (role.asked # <<>> /\ role.asked[1] = "postgres")
            /\ (\E i \in 1..Len(role.asked) : role.asked[i] = "mongo")
                  => (/\ ~mongo.nil
                      /\ role.pg \in {"skip", "none"}
                      /\ ~Holds(postgres, id))
            /\ role.err = "role not found"
                  => (~Holds(postgres, id) /\ ~Holds(mongo, id))

\* Postgres had no such row and the role came from MongoDB
C23_Witness ==
    /\ roleLast.req = "select"
    /\ roleLast.role.asked = <<"postgres", "mongo">>
    /\ roleLast.resp = [status |-> 200, id |-> roleLast.body.roleId]
    /\ ~Holds(postgres, roleLast.body.roleId)

\* the goroutines inside conn.WriteJSON
InWriteJSON == { g \in DOMAIN spc : spc[g].at = "write" }

\* C28: however the client loop and the relaying goroutines interleave, at
\* most one goroutine is inside conn.WriteJSON at a time, and it is the
\* holder of writeMu.
C28_WritesExclusive ==
    /\ Cardinality(InWriteJSON) <= 1
    /\ \A g \in InWriteJSON : writeMu = g

\* the relay goroutine is writing a transcript while the client loop and
\* the reader wait for the lock with an error and a pong to send
C28_Witness ==
    /\ DOMAIN spc = Writers
    /\ spc["relay"] = [at |-> "write", msg |-> "partial"]
    /\ spc["loop"] = [at |-> "lock", msg |-> "pong"]
    /\ spc["reader"] = [at |-> "lock", msg |-> "error"]
    /\ nWritten >= 1

\* the goroutines inside sendFrame
InSendFrame ==
    { g \in DOMAIN qpc : qpc[g].at \in {"header", "incr", "write"} }

\* C29: in every interleaving of the client loop's audio and stop calls,
\* the relay goroutine's reads and the teardown, at most one goroutine is
\* inside sendFrame, and it is the client loop; the frames written carry
\* strictly increasing sequence numbers starting at 1, a number is missing
\* only for a write that failed, and the counter is one past the number of
\* sendFrame calls made.
C29_WriterSingleGoroutine ==
    /\ Cardinality(InSendFrame) <= 1
    /\ InSendFrame \subseteq {"loop"}
    /\ \A i \in 1..Len(frames) :
          /\ IntOf(FrameSeq(frames[i])) >= i
          /\ IntOf(FrameSeq(frames[i])) < IntOf(seq)
          /\ \A j \in 1..Len(frames) :
                i < j => IntOf(FrameSeq(frames[i])) < IntOf(FrameSeq(frames[j]))
    /\ ~connBroken =>
          \A i \in 1..Len(frames) : FrameSeq(frames[i]) = U32Of(i)
    /\ \A g \in InSendFrame :
          qpc[g].at \in {"incr", "write"} =>
             /\ IntOf(qpc[g].seqBytes) = IntOf(seq) - (IF qpc[g].at = "write" THEN 1 ELSE 0)
             /\ \A i \in 1..Len(frames) : FrameSeq(frames[i]) # qpc[g].seqBytes

\* the client loop is writing its stop frame, numbered 4 after the config
\* frame and two audio frames, while the relay goroutine is in a read
C29_Witness ==
    /\ DOMAIN qpc = SessionGoroutines
    /\ qpc["loop"] = QAt("write", 4, U32Of(4))
    /\ qpc["relay"].at = "read"
    /\ Len(frames) = 3
    /\ ~connBroken

\* the relay goroutine ended on an error envelope of the provider
RelayGotError ==
    /\ rpc = "done"
    /\ results.buf # <<>>
    /\ Head(results.buf) = "qiniu asr error"

\* an `error` message was written to the client
ErrorWritten == \E i \in 1..Len(clientOut) : clientOut[i].type = "error"

\* C31, the orchestrator's part: a read of an error envelope ends the
\* streaming attempt with that error, whatever text was accumulated, and
\* recognize goes on to the REST fallback.
C31_AttemptFails ==
    [][\A m \in UpstreamMsgs :
          (ReadMsg(m) /\ DecodeMessage(m).ok /\ IsErrorEnv(DecodeMessage(m).env))
              => /\ NextEvent(m).err = "qiniu asr error"
                 /\ wsOut' = Returned(NoResult, <<"qiniu asr error">>)
                 /\ pc' = "fallback"]_vars

C31_AttemptFailsWitness ==
    /\ wsOut = Returned(NoResult, <<"qiniu asr error">>)
    /\ finalText # <<>>
    /\ Len(restCalls) = 1

\* C31 as stated, for the bridge: NextEvent sets Err on every error
\* envelope, and once the relay goroutine has ended on one, the error is
\* reported to the client (as long as the client is there to be written to).
C31_ErrorIsTerminal ==
    /\ [](\A m \in BridgeMsgs :
             (DecodeMessage(m).ok /\ IsErrorEnv(DecodeMessage(m).env))
                 => NextEvent(m).err = "qiniu asr error")
    /\ (RelayGotError ~> (ErrorWritten \/ ~clientOK))

\* C32 as stated: a step that reads a client text frame that is not JSON,
\* as the first message or as a later one, appends one `error` to the
\* client's messages (when the write succeeds) and leaves the handler where
\* it was, reading on, with the upstream session, the relay goroutine and
\* the frames sent untouched.
C32_MalformedControlContinues ==
    [][((HStart \/ HClientMsg) /\ lastClient' = "bad_json")
          => /\ clientOK' => clientOut' = Append(clientOut, ClientMsg("error", <<>>))
             /\ UNCHANGED <<hpc, upOpen, hctxDone, rpc, results, stopSent,
                            frames, seq>>]_vars

\* C33 as stated: a Recognize call whose ctx was canceled while it was in
\* the drain loop returns an error, never a result.
C33_CancelPropagated ==
    (pc = "done" /\ cancelAt \in {"loop_top", "read"}) => result.err # <<>>

\* C33, the part that holds: a cancellation the loop finds at its top ends
\* the streaming attempt with ctx.Err(), and the call returns an error.
C33_CancelSeenAtTop ==
    (pc = "done" /\ cancelAt = "loop_top")
        => /\ wsOut = Returned(NoResult, <<"context canceled">>)
           /\ result.err # <<>>

\* the reader goroutine of StreamRecognize is at a send on errCh that cannot
\* go through: the buffer is full, and the select loop, the only receiver,
\* has returned
ReaderStuck ==
    /\ mpc = "done"
    /\ gpc \in {"send_err", "deferred"}
    /\ Len(errCh) = ErrChCap

\* C35 as stated: once StreamRecognize has returned, its reader goroutine
\* is never left blocked on a send to errCh.
C35_ReaderTerminates == ~ReaderStuck

\* C34: once maxWait has passed no further read is started, and a call that
\* has entered the drain loop leaves it and returns, whatever the provider
\* sends or fails to send.
C34_DrainBounded ==
    /\ [][(expired /\ pc # "read") => pc' # "read"]_vars
    /\ (pc \in {"loop_top", "read"}) ~> (wsOut.done /\ pc = "done")

\* undecodable frames were skipped until the deadline was found passed at the
\* top of the loop
C34_Witness ==
    /\ pc = "done"
    /\ expired
    /\ skipped
    /\ lastRead.kind = "msg"
    /\ ~DecodeMessage(lastRead.msg).ok
    /\ wsOut = Returned(NoResult,
                        <<"asr websocket timed out waiting for response">>)

\* the client's `stop` was forwarded on a session of HandleASRWebsocket
StopForwarded ==
    \E n \in 1..Len(wSess) :
        \E i \in 1..Len(wSess[n].frames) : wSess[n].frames[i] = 4

\* the reader goroutines of HandleASRWebsocket have all ended
ReadersEnded == \A n \in 1..Len(wSess) : wSess[n].rd \in {"idle", "done"}

C36_StreamBridgeReturns ==
    /\ (hpc \in {"stop", "wait"}) ~> (hpc = "done")
    /\ (hpc = "done") ~> (rpc \in {"idle", "done"})
    /\ [][results'.buf # results.buf /\ Len(results'.buf) > Len(results.buf)
            => (results.buf = <<>> /\ ~results.closed)]_vars

C36_StreamBridgeWitness ==
    /\ hpc = "done"
    /\ rpc = "done"
    /\ stopSent
    /\ results.buf # <<>>

\* the sessions of HandleASRWebsocket whose upstream connection is open
OpenSessions == { n \in 1..Len(wSess) : wSess[n].open }

BothConfigured == ~postgres.nil /\ ~mongo.nil

\* C38: role create, update and delete keep the two role stores
\* consistent: after every completed operation both stores hold the same
\* set of role ids, and an operation that reports an error has changed
\* neither store (so the lookup never returns a role whose creation failed
\* or whose deletion was carried out in Postgres).
C38_StoresConsistent ==
    /\ [](BothConfigured => postgres.ids = mongo.ids)
    /\ [][(roleLast'.req \in {"create", "update", "delete"}
            /\ roleLast'.resp.status >= 400)
          => UNCHANGED <<postgres, mongo>>]_vars

\* ---- C39 ----------------------------------------------------------------
\* the goroutines whose Register call passes the validation
Registering ==
    { g \in DOMAIN rgo :
        /\ rgo[g].op = "register"
        /\ TrimSpace(rgo[g].req.username) # <<>>
        /\ Len(TrimSpace(rgo[g].req.password)) >= 6 }

RegKey(g) == ToLower(TrimSpace(rgo[g].req.username))
RegEmailKey(g) == normalizeEmail(rgo[g].req.email)

RegSucceeded == { g \in Registering : rgo[g].at = "done" /\ rgo[g].err = "" }

AllCallsDone == \A g \in DOMAIN rgo : rgo[g].at = "done"

SameUsername == \A g, h \in Registering : RegKey(g) = RegKey(h)

SameEmail ==
    \A g, h \in Registering :
       RegEmailKey(g) # <<>> /\ RegEmailKey(g) = RegEmailKey(h)

RangeOf(m) == { m[k] : k \in DOMAIN m }

\* C39: when the Register calls racing with one another (and with Login
\* calls) carry the same username, or the same email, exactly one
\* succeeds and the others fail with ErrUserExists (ErrEmailExists when
\* only the email is shared); in every interleaving the usernames and the
\* emails stay unique in the store and every user reachable by email is
\* reachable by username.
C39_OneRegistrationWins ==
    /\ (SameUsername \/ SameEmail) => Cardinality(RegSucceeded) <= 1
    /\ (AllCallsDone /\ Registering # {} /\ SameUsername)
          => /\ Cardinality(RegSucceeded) = 1
             /\ \A g \in Registering \ RegSucceeded :
                   rgo[g].err = "ErrUserExists"
    /\ (AllCallsDone /\ Registering # {} /\ SameEmail)
          => /\ Cardinality(RegSucceeded) = 1
             /\ \A g \in Registering \ RegSucceeded, w \in RegSucceeded :
                   rgo[g].err = IF RegKey(g) = RegKey(w) THEN "ErrUserExists"
                                ELSE "ErrEmailExists"
    /\ \A i, j \in 1 .. Len(users) :
          i # j => /\ ToLower(users[i].username) # ToLower(users[j].username)
                   /\ \/ normalizeEmail(users[i].email) = <<>>
                      \/ normalizeEmail(users[i].email)
                            # normalizeEmail(users[j].email)
    /\ Cardinality(DOMAIN usersByName) = Cardinality(RangeOf(usersByName))
    /\ Cardinality(DOMAIN usersByEmail) = Cardinality(RangeOf(usersByEmail))
    /\ RangeOf(usersByEmail) \subseteq RangeOf(usersByName)

\* two or more registrations of one username, typed "a" and "A", have
\* all returned and one of them was turned away
C39_Witness ==
    /\ AllCallsDone
    /\ SameUsername
    /\ Cardinality(Registering) >= 2
    /\ \E g \in Registering : rgo[g].err = "ErrUserExists"
    /\ \E g, h \in Registering : rgo[g].req.username # rgo[h].req.username

\* ---- C40 ----------------------------------------------------------------
NoTranscription == <<"asr websocket produced no transcription">>

\* C40: a successful result of the streaming path has non-empty trimmed
\* text; when the drain loop ends (final event, clean upstream close,
\* soft timeout) with no text accumulated, the streaming attempt fails
\* with the no-transcription error and the REST fallback is called; no
\* empty transcript is returned.
C40_NoEmptyTranscript ==
    /\ [](wsOut.done /\ wsOut.err = <<>>
            => /\ ~wsOut.res.nil
               /\ wsOut.res.text # <<>>
               /\ wsOut.res.text = TrimSpace(wsOut.res.text)
               /\ wsOut.res.text = TrimSpace(finalText))
    /\ [][(pc = "ws_finish" /\ pc' # pc /\ TrimSpace(finalText) = <<>>)
            => /\ wsOut'.done
               /\ wsOut'.err = NoTranscription
               /\ pc' = "fallback"]_vars
    /\ [][(pc = "fallback" /\ pc' # pc)
            => /\ Len(restCalls') = Len(restCalls) + 1
               /\ restCalls'[Len(restCalls')].inline
               /\ result'.done
               /\ result'.err = <<>> => result' = restOut']_vars
    /\ [](result.done /\ result.err = <<>> /\ restCalls = <<>> /\ wsOut.done
            => result = wsOut /\ result.res.text # <<>>)

\* the upstream closed (or the deadline passed after a message) with only
\* blank text accumulated: the attempt failed and the REST call was made
C40_Witness ==
    /\ pc = "done"
    /\ wsOut.done /\ wsOut.err = NoTranscription
    /\ finalText # <<>> /\ TrimSpace(finalText) = <<>>
    /\ Len(restCalls) = 1
    /\ result.done

====
